---- MODULE Spec2Model ----
(***************************************************************************)
(* Model of the resumable chunked-upload engine of share-rs:               *)
(*   src/backend/web/handlers/uploads.rs  (init_upload, upload_chunk,      *)
(*                                         complete_upload, merge_chunks)  *)
(*   src/backend/db/repository.rs         (uploads / chunks tables)        *)
(*   src/util.rs                          (file existence and hashing)     *)
(* The database tables and the files of the storage folder are the state.  *)
(* Every HTTP handler is one action; upload_chunk is also given one await  *)
(* at a time, for the requests that run concurrently.                      *)
(***************************************************************************)
EXTENDS Integers, Sequences, FiniteSets, TLC

\* ------------------------------------------------------------------ bounds
\* chunk numbers a client uses are 1..MaxChunks (0 is sent too, as the
\* invalid number)
MaxChunks == 2
\* the file size the clients declare
MaxFileSize == 2
\* cap of the AUTOINCREMENT counter of chunks.id
MaxChunkId == 2
\* largest "(n)" suffix get_available_filename is allowed to reach
MaxCounter == 1
\* number of faults of the storage in one run: a file removed or
\* overwritten from outside, a temp directory that cannot be removed, a
\* statement the database fails to execute
MaxTamper == 1
\* number of times the server is started in one run
MaxStarts == 3

\* ------------------------------------------------------- input alphabets
Byte == {1, 2}
FileNames == {"f"}
EmptyId == 0

\* compute_file_hash on the bytes of a file: the digest is a function of
\* the content and nothing else (streamed block by block), and distinct
\* contents give distinct digests.  Digits 1..2 after a leading 1 in base 3.
RECURSIVE HashFrom(_, _, _)
HashFrom(acc, bytes, i) ==
    IF i > Len(bytes) THEN acc
    ELSE HashFrom(acc * (Cardinality(Byte) + 1) + bytes[i], bytes, i + 1)

Sha256(bytes) == HashFrom(1, bytes, 1)

\* the chunk bodies the clients send
ChunkBodies == {<<1>>, <<2>>}
ChunkHashes == {Sha256(b) : b \in ChunkBodies}
\* content hashes the clients announce: the digests of two files that are
\* built from the same chunks in opposite order
FileIds == {Sha256(<<1, 2>>), Sha256(<<2, 1>>)}
FileSizes == {MaxFileSize}
ChunkNumbers == 1..MaxChunks

\* ------------------------------------------------------------------ state
VARIABLES
    uploads,        \* table uploads: id -> row
    chunks,         \* table chunks: set of rows
    next_chunk_id,  \* AUTOINCREMENT sequence of chunks.id
    dirs,           \* ids whose temp directory {storage}/{id} exists
    chunk_files,    \* <<id, n>> -> bytes of {storage}/{id}/chunk_{n}
    dest_files,     \* <<name, k>> -> bytes of {storage}/name or name(k)
    resp,           \* the response of the last request
    tampered,       \* number of faults of the storage so far
    reqs,           \* the upload_chunk requests in flight: where each one is
    inits,          \* the init_upload requests in flight: where each one is
    server_state,   \* ShareServer.server_state: On or Off
    shutdown_token, \* ShareServer.shutdown_token: the listener it can stop, or NoToken
    listeners,      \* the listener threads spawned by start, in the order of the starts
    returned,       \* the last call that is no HTTP request, and what it returned
    disk,           \* path -> what is at the path, outside the storage folder
    shares,         \* table shares: id -> row
    initialized,    \* SqliteDatabaseSource.initialized: the flag under the mutex
    db_file,        \* the database file: absent, created without tables, or with the schema
    migrations,     \* number of runs of Migrator::up so far
    callers         \* the calls of connection() in flight: where each one is

\* the ShareServer and its threads
host == <<server_state, shutdown_token, listeners>>

\* the SqliteDatabaseSource, its file and the calls of connection()
database == <<initialized, db_file, migrations, callers>>

\* what no upload handler reads or writes
outside == <<host, returned, inits, disk, shares, database>>

vars == <<uploads, chunks, next_chunk_id, dirs, chunk_files, dest_files, resp, tampered,
          reqs, inits, server_state, shutdown_token, listeners, returned, disk, shares,
          initialized, db_file, migrations, callers>>

Uploading == "Uploading"
Completed == "Completed"

\* ------------------------------------------------------------ file system
WriteFile(fs, p, bytes) ==
    [q \in (DOMAIN fs) \cup {p} |-> IF q = p THEN bytes ELSE fs[q]]

RemoveFile(fs, p) == [q \in (DOMAIN fs) \ {p} |-> fs[q]]

exists_file(fs, p) == p \in DOMAIN fs

delete_file_if_exists(fs, p) == RemoveFile(fs, p)

\* mutant: the digest of a read that returns no byte
compute_file_hash_of_nothing(fs, p) == Sha256(<< >>)

compute_file_hash(fs, p) == Sha256(fs[p])

\* io::Result<bool>: Err when the file cannot be opened, Ok(equal) otherwise
check_file_hash(fs, p, expected_hash) ==
    IF ~exists_file(fs, p)
    THEN [is_err |-> TRUE, value |-> FALSE]
    ELSE [is_err |-> FALSE, value |-> (compute_file_hash(fs, p) = expected_hash)]

Valid == "Valid"
InvalidNotFound == "Invalid: File not found"
InvalidMismatch == "Invalid: Hash mismatch"

\* mutant: an existing file is never found to match
check_file_never_valid(fs, p, expected_hash) ==
    IF ~exists_file(fs, p) THEN InvalidNotFound ELSE InvalidMismatch

check_file(fs, p, expected_hash) ==
    IF ~exists_file(fs, p) THEN InvalidNotFound
    ELSE IF compute_file_hash(fs, p) = expected_hash THEN Valid
    ELSE InvalidMismatch

\* mutant: one file name for every chunk of the upload
get_chunk_file_without_number(upload_id, chunk_number) == <<upload_id, 1>>

get_chunk_file(upload_id, chunk_number) == <<upload_id, chunk_number>>

\* the counter of the first free "name(counter)"; 0 stands for the plain name
RECURSIVE FirstFree(_, _, _)
FirstFree(fs, name, counter) ==
    IF ~exists_file(fs, <<name, counter>>) THEN counter
    ELSE FirstFree(fs, name, counter + 1)

get_available_filename(fs, name) == <<name, FirstFree(fs, name, 0)>>

\* The file name of an InitUpload is joined to the storage folder as it was
\* sent.  A name with a directory in it can name a path below the temp
\* directory of an upload: "16/chunk_1" is the file of chunk 1 of the upload
\* 16, and "16/chunk_1(k)" a file beside it.
NestedFileNames == {"16/chunk_1"}

NestedIn == [name \in NestedFileNames |-> [upload_id |-> 16, chunk_number |-> 1]]

\* the destination path is below a temp directory
in_temp_dir(p) == p[1] \in NestedFileNames

\* the destination path is the path of a chunk file
is_chunk_file(p) == p[1] \in NestedFileNames /\ p[2] = 0

chunk_file_of(p) == get_chunk_file(NestedIn[p[1]].upload_id, NestedIn[p[1]].chunk_number)

\* the files exists_file and check_file find at the destination paths of the
\* file name: for a nested name the chunk file is the file of the plain name
storage_folder(name) ==
    IF name \in NestedFileNames /\ exists_file(chunk_files, chunk_file_of(<<name, 0>>))
    THEN WriteFile(dest_files, <<name, 0>>, chunk_files[chunk_file_of(<<name, 0>>)])
    ELSE dest_files

\* where File::create and write_all of merge_chunks put the output: stored
\* is the storage folder with the output file in it
dest_files_after(stored, output_path) ==
    IF is_chunk_file(output_path) THEN dest_files ELSE stored

chunk_files_after(stored, output_path) ==
    IF is_chunk_file(output_path)
    THEN WriteFile(chunk_files, chunk_file_of(output_path), stored[output_path])
    ELSE chunk_files

\* create_dir_all(parent) of merge_chunks
dirs_after(output_path) ==
    IF in_temp_dir(output_path) THEN dirs \cup {NestedIn[output_path[1]].upload_id}
    ELSE dirs

\* remove_dir_all takes the destination files that are below the directory
remove_nested(fs, upload_id) ==
    IF \E name \in NestedFileNames : NestedIn[name].upload_id = upload_id
    THEN [q \in {p \in DOMAIN fs : ~(in_temp_dir(p) /\ NestedIn[p[1]].upload_id = upload_id)}
            |-> fs[q]]
    ELSE fs

\* ---------------------------------------------- util.rs on any kind of path
\* The operators above are exists_file, compute_file_hash and check_file on
\* the storage folder, where a path holds a regular readable file or
\* nothing.  Below are the same functions with what else a path can hold.
Paths == {"a.txt", "b"}

\* every content of at most MaxFileSize bytes
Contents == UNION {[1..n -> Byte] : n \in 0..MaxFileSize}

NotFound == [kind |-> "NotFound", bytes |-> << >>]
Directory == [kind |-> "Directory", bytes |-> << >>]
PermissionDenied == [kind |-> "PermissionDenied", bytes |-> << >>]
RegularFile(bytes) == [kind |-> "File", bytes |-> bytes]

Ok(value) == [is_err |-> FALSE, kind |-> "", value |-> value]
Err(kind) == [is_err |-> TRUE, kind |-> kind, value |-> FALSE]

\* File::open for reading: open(2) succeeds on a directory too (what
\* test_exists_folder asserts); the ErrorKind names the other outcomes
File_open(entry) ==
    IF entry.kind \in {"File", "Directory"} THEN Ok(TRUE) ELSE Err(entry.kind)

\* file.read on what was opened: a directory cannot be read
File_read(entry) ==
    IF entry.kind = "File" THEN Ok(entry.bytes) ELSE Err("IsADirectory")

exists_file_result(entry) ==
    LET opened == File_open(entry)
    IN  IF ~opened.is_err THEN Ok(TRUE)
        ELSE IF opened.kind = "NotFound" THEN Ok(FALSE)
        ELSE opened

compute_file_hash_result(entry) ==
    LET opened == File_open(entry)
        read == File_read(entry)
    IN  IF opened.is_err THEN opened
        ELSE IF read.is_err THEN read
        ELSE Ok(Sha256(read.value))

\* mutant: a mismatch is returned as an error, as check_file_hash's callers
\* expect of it
check_file_result_mismatch_as_err(entry, expected_hash) ==
    LET exists == exists_file_result(entry)
        hash == compute_file_hash_result(entry)
    IN  IF exists.is_err THEN exists
        ELSE IF ~exists.value THEN Ok(InvalidNotFound)
        ELSE IF hash.is_err THEN hash
        ELSE IF hash.value = expected_hash THEN Ok(Valid)
        ELSE Err("InvalidData")

check_file_result(entry, expected_hash) ==
    LET exists == exists_file_result(entry)
        hash == compute_file_hash_result(entry)
    IN  IF exists.is_err THEN exists
        ELSE IF ~exists.value THEN Ok(InvalidNotFound)
        ELSE IF hash.is_err THEN hash
        ELSE IF hash.value = expected_hash THEN Ok(Valid)
        ELSE Ok(InvalidMismatch)

\* ------------------------------------------------------------- repository
get_upload_item(upload_id) ==
    IF upload_id \in DOMAIN uploads THEN {uploads[upload_id]} ELSE {}

get_upload_chunks(upload_id) == {c \in chunks : c.upload_id = upload_id}

\* mutant: the query finds no row
get_chunk_by_number_none(tbl, upload_id, chunk_number) == {}

get_chunk_by_number(tbl, upload_id, chunk_number) ==
    {c \in tbl : c.upload_id = upload_id /\ c.chunk_number = chunk_number}

\* mutant: the row is not deleted
delete_chunk_by_id_noop(tbl, chunk_id) == tbl

delete_chunk_by_id(tbl, chunk_id) == {c \in tbl : c.id # chunk_id}

\* mutant: the table without the unique key on file_path
insert_upload_item_ok_without_unique_path(tbl, item) == item.id \notin DOMAIN tbl

\* the insert is refused when the primary key or the UNIQUE file_path is taken
insert_upload_item_ok(tbl, item) ==
    /\ item.id \notin DOMAIN tbl
    /\ \A k \in DOMAIN tbl : tbl[k].file_path # item.file_path

insert_upload_item(tbl, item) ==
    [k \in (DOMAIN tbl) \cup {item.id} |-> IF k = item.id THEN item ELSE tbl[k]]

\* mutant: the table without the unique index idx_upload_id_chunk_number
insert_chunk_ok_without_unique_index(tbl, ups, chunk) == chunk.upload_id \in DOMAIN ups

\* the insert is refused when (upload_id, chunk_number) is taken or the
\* upload it refers to does not exist
insert_chunk_ok(tbl, ups, chunk) ==
    /\ get_chunk_by_number(tbl, chunk.upload_id, chunk.chunk_number) = {}
    /\ chunk.upload_id \in DOMAIN ups

\* delete the chunks of the upload, then the upload
delete_upload_item_chunks(tbl, upload_id) == {c \in tbl : c.upload_id # upload_id}

\* FK_upload_id has no ON DELETE action: the delete of an upload is refused
\* while a chunk refers to it
delete_upload_item_uploads_ok(tbl, upload_id) == \A c \in tbl : c.upload_id # upload_id

delete_upload_item_uploads(tbl, upload_id) ==
    [k \in (DOMAIN tbl) \ {upload_id} |-> tbl[k]]

\* -------------------------------------------------------------- responses
\* error is what the handler writes to the log with error!(..) before it
\* answers; the other fields are the HTTP response, content_type being set
\* for a file that is served
NoResp ==
    [op |-> "none", file_id |-> EmptyId, code |-> 0, body |-> "", error |-> "",
     status |-> "", uploaded_chunks |-> << >>, uploaded_size |-> 0,
     content_type |-> ""]

Response(op, id, code, body) ==
    [op |-> op, file_id |-> id, code |-> code, body |-> body, error |-> "",
     status |-> "", uploaded_chunks |-> << >>, uploaded_size |-> 0,
     content_type |-> ""]

InitResponse(id, status, uploaded_chunks, uploaded_size) ==
    [op |-> "init", file_id |-> id, code |-> 200, body |-> "", error |-> "",
     status |-> status, uploaded_chunks |-> uploaded_chunks,
     uploaded_size |-> uploaded_size, content_type |-> ""]

\* ------------------------------------------------------ requests in flight
\* the two upload_chunk requests the server works on at the same time
Requests == {1, 2}

\* Ok(None) of get_chunk_by_number
NoChunk ==
    [id |-> 0, upload_id |-> EmptyId, chunk_number |-> 0, chunk_size |-> 0,
     chunk_hash |-> 0]

\* a request that has not arrived: pc is the await the handler is at, chunk
\* the row get_chunk_by_number returned, code and body the answer
Idle ==
    [pc |-> "idle", upload_id |-> EmptyId, chunk_number |-> 0, chunk_hash |-> 0,
     bytes |-> << >>, chunk |-> NoChunk, code |-> 0, body |-> ""]

\* Ok(None) of get_upload_item
NoItem ==
    [id |-> EmptyId, file_name |-> "", file_size |-> 0, file_path |-> <<"", 0>>,
     status |-> ""]

\* an init_upload request that has not arrived: pc is the await the handler
\* is at, upload_item the row get_upload_item returned, file_path the path
\* get_available_filename returned, code and status the answer
IdleInit ==
    [pc |-> "idle", file_name |-> "", file_size |-> 0, file_hash |-> EmptyId,
     upload_item |-> NoItem, file_path |-> <<"", 0>>, code |-> 0, status |-> "",
     body |-> ""]

\* ------------------------------------------------------------ ShareServer
On == "On"
Off == "Off"

\* shutdown_token = None
NoToken == 0

\* before the first call
NoCall == [op |-> "none", warned |-> FALSE]

\* the tasks that call connection(): FileListPage::reload, handle_open_args
\* and start_server
Callers == {"reload", "handle_open_args", "start_server"}

\* a task that has not called connection()
NotCalled == [pc |-> "idle", needs_init |-> FALSE, result |-> "none"]

\* ------------------------------------------------------------------- Init
Init ==
    /\ uploads = << >>
    /\ chunks = {}
    /\ next_chunk_id = 1
    /\ dirs = {}
    /\ chunk_files = << >>
    /\ dest_files = << >>
    /\ resp = NoResp
    /\ tampered = 0
    /\ reqs = [r \in Requests |-> Idle]
    /\ inits = [r \in Requests |-> IdleInit]
    /\ server_state = Off
    /\ shutdown_token = NoToken
    /\ listeners = << >>
    /\ returned = NoCall
    /\ disk = [p \in Paths |-> NotFound]
    /\ shares = << >>
    /\ initialized = FALSE
    /\ db_file = "absent"
    /\ migrations = 0
    /\ callers = [c \in Callers |-> NotCalled]

\* ------------------------------------------------------------ init_upload
\* the orders in which the storage may return a set of rows
RowOrders(rows) ==
    {s \in [1..Cardinality(rows) -> rows] : \A i, j \in DOMAIN s : i # j => s[i] # s[j]}

create_upload_item(ups, fs, file_name, file_size, file_hash) ==
    LET item == [id |-> file_hash, file_name |-> file_name, file_size |-> file_size,
                 file_path |-> get_available_filename(fs, file_name),
                 status |-> Uploading]
    IN  IF insert_upload_item_ok(ups, item)
        THEN [is_err |-> FALSE, uploads |-> insert_upload_item(ups, item)]
        ELSE [is_err |-> TRUE, uploads |-> ups]

\* the loop of check_and_clean_invalid_chunks from position i on
RECURSIVE check_and_clean_invalid_chunks(_, _, _, _, _)
check_and_clean_invalid_chunks(rows, i, valid_chunks, fs, tbl) ==
    IF i > Len(rows)
    THEN [valid_chunks |-> valid_chunks, chunk_files |-> fs, chunks |-> tbl]
    ELSE LET chunk == rows[i]
             chunk_path == get_chunk_file(chunk.upload_id, chunk.chunk_number)
         IN  IF check_file(fs, chunk_path, chunk.chunk_hash) = Valid
             THEN check_and_clean_invalid_chunks(rows, i + 1, Append(valid_chunks, chunk),
                                                 fs, tbl)
             ELSE check_and_clean_invalid_chunks(rows, i + 1, valid_chunks,
                                                 delete_file_if_exists(fs, chunk_path),
                                                 delete_chunk_by_id(tbl, chunk.id))

RECURSIVE SumSizes(_, _)
SumSizes(rows, i) ==
    IF i > Len(rows) THEN 0 ELSE rows[i].chunk_size + SumSizes(rows, i + 1)

handle_completed_upload(upload_item, file_name, file_size) ==
    IF check_file(storage_folder(upload_item.file_path[1]), upload_item.file_path,
                  upload_item.id) = Valid
    THEN /\ resp' = InitResponse(upload_item.id, Completed, << >>, upload_item.file_size)
         /\ UNCHANGED <<uploads, chunks, next_chunk_id, dirs, chunk_files, dest_files>>
    ELSE LET chunks_left == delete_upload_item_chunks(chunks, upload_item.id)
             uploads_left == delete_upload_item_uploads(uploads, upload_item.id)
             created == create_upload_item(uploads_left, storage_folder(file_name),
                                           file_name, file_size,
                                           upload_item.id)
         IN  /\ FirstFree(storage_folder(file_name), file_name, 0) <= MaxCounter
             /\ chunks' = chunks_left
             /\ uploads' = created.uploads
             /\ resp' = IF created.is_err
                        THEN Response("init", upload_item.id, 500, "")
                        ELSE InitResponse(upload_item.id, Uploading, << >>, 0)
             /\ UNCHANGED <<next_chunk_id, dirs, chunk_files, dest_files>>

handle_uploading_upload(upload_item) ==
    \E rows \in RowOrders(get_upload_chunks(upload_item.id)) :
        LET cleaned == check_and_clean_invalid_chunks(rows, 1, << >>, chunk_files, chunks)
            valid_chunks == cleaned.valid_chunks
        IN  /\ chunk_files' = cleaned.chunk_files
            /\ chunks' = cleaned.chunks
            /\ resp' = InitResponse(upload_item.id, Uploading,
                                    [i \in DOMAIN valid_chunks |-> valid_chunks[i].chunk_number],
                                    SumSizes(valid_chunks, 1))
            /\ UNCHANGED <<uploads, next_chunk_id, dirs, dest_files>>

init_upload(file_name, file_size, file_hash) ==
    IF get_upload_item(file_hash) # {}
    THEN LET upload_item == uploads[file_hash]
         IN  IF upload_item.status = Completed
             THEN handle_completed_upload(upload_item, file_name, file_size)
             ELSE handle_uploading_upload(upload_item)
    ELSE LET created == create_upload_item(uploads, storage_folder(file_name), file_name,
                                           file_size, file_hash)
         IN  /\ FirstFree(storage_folder(file_name), file_name, 0) <= MaxCounter
             /\ uploads' = created.uploads
             /\ resp' = IF created.is_err
                        THEN Response("init", file_hash, 500, "")
                        ELSE InitResponse(file_hash, Uploading, << >>, 0)
             /\ UNCHANGED <<chunks, next_chunk_id, dirs, chunk_files, dest_files>>

\* the requests of the clients that upload the files ids
InitUploadOf(ids) ==
    \E file_name \in FileNames, file_size \in FileSizes, file_hash \in ids :
        /\ init_upload(file_name, file_size, file_hash)
        /\ UNCHANGED <<tampered, reqs, outside>>

InitUpload == InitUploadOf(FileIds)

\* ----------------------------------------------------------- upload_chunk
\* from "save the chunk file" on: the copy, the hash check, the insert
save_chunk(upload_id, chunk_number, chunk_hash, bytes, fs, tbl) ==
    LET chunk_path == get_chunk_file(upload_id, chunk_number)
        copied == WriteFile(fs, chunk_path, bytes)
        chunk == [id |-> next_chunk_id, upload_id |-> upload_id,
                  chunk_number |-> chunk_number, chunk_size |-> Len(bytes),
                  chunk_hash |-> chunk_hash]
    IN  IF check_file_hash(copied, chunk_path, chunk_hash).is_err
        THEN /\ chunk_files' = RemoveFile(copied, chunk_path)
             /\ chunks' = tbl
             /\ resp' = Response("chunk", upload_id, 400, "Chunk hash verification failed")
             /\ UNCHANGED next_chunk_id
        ELSE IF ~insert_chunk_ok(tbl, uploads, chunk)
        THEN /\ chunk_files' = copied
             /\ chunks' = tbl
             /\ resp' = Response("chunk", upload_id, 500, "Failed to insert chunk")
             /\ UNCHANGED next_chunk_id
        ELSE /\ next_chunk_id <= MaxChunkId
             /\ chunk_files' = copied
             /\ chunks' = tbl \cup {chunk}
             /\ next_chunk_id' = next_chunk_id + 1
             /\ resp' = Response("chunk", upload_id, 200, "Chunk uploaded successfully")

\* mutant: upload_chunk without the check of the status of the session
upload_chunk_without_status_check(upload_id, chunk_number, chunk_hash, bytes) ==
    IF upload_id = EmptyId \/ chunk_number <= 0
    THEN /\ resp' = Response("chunk", upload_id, 400, "Missing or invalid required fields")
         /\ UNCHANGED <<uploads, chunks, next_chunk_id, dirs, chunk_files, dest_files>>
    ELSE IF get_upload_item(upload_id) = {}
    THEN /\ resp' = Response("chunk", upload_id, 404, "Upload item not found")
         /\ UNCHANGED <<uploads, chunks, next_chunk_id, dirs, chunk_files, dest_files>>
    ELSE LET chunk_path == get_chunk_file(upload_id, chunk_number)
             existing == get_chunk_by_number(chunks, upload_id, chunk_number)
         IN  /\ dirs' = dirs \cup {upload_id}
             /\ UNCHANGED <<uploads, dest_files>>
             /\ IF existing # {}
                THEN LET chunk == CHOOSE c \in existing : TRUE
                     IN  IF check_file(chunk_files, chunk_path, chunk.chunk_hash) = Valid
                         THEN /\ resp' = Response("chunk", upload_id, 200,
                                                  "Chunk already uploaded")
                              /\ UNCHANGED <<chunks, next_chunk_id, chunk_files>>
                         ELSE save_chunk(upload_id, chunk_number, chunk_hash, bytes,
                                         delete_file_if_exists(chunk_files, chunk_path),
                                         delete_chunk_by_id(chunks, chunk.id))
                ELSE save_chunk(upload_id, chunk_number, chunk_hash, bytes,
                                delete_file_if_exists(chunk_files, chunk_path), chunks)

upload_chunk(upload_id, chunk_number, chunk_hash, bytes) ==
    IF upload_id = EmptyId \/ chunk_number <= 0
    THEN /\ resp' = Response("chunk", upload_id, 400, "Missing or invalid required fields")
         /\ UNCHANGED <<uploads, chunks, next_chunk_id, dirs, chunk_files, dest_files>>
    ELSE IF get_upload_item(upload_id) = {}
    THEN /\ resp' = Response("chunk", upload_id, 404, "Upload item not found")
         /\ UNCHANGED <<uploads, chunks, next_chunk_id, dirs, chunk_files, dest_files>>
    ELSE IF uploads[upload_id].status = Completed
    THEN /\ resp' = Response("chunk", upload_id, 400, "File already completed")
         /\ UNCHANGED <<uploads, chunks, next_chunk_id, dirs, chunk_files, dest_files>>
    ELSE LET chunk_path == get_chunk_file(upload_id, chunk_number)
             existing == get_chunk_by_number(chunks, upload_id, chunk_number)
         IN  /\ dirs' = dirs \cup {upload_id}
             /\ UNCHANGED <<uploads, dest_files>>
             /\ IF existing # {}
                THEN LET chunk == CHOOSE c \in existing : TRUE
                     IN  IF check_file(chunk_files, chunk_path, chunk.chunk_hash) = Valid
                         THEN /\ resp' = Response("chunk", upload_id, 200,
                                                  "Chunk already uploaded")
                              /\ UNCHANGED <<chunks, next_chunk_id, chunk_files>>
                         ELSE save_chunk(upload_id, chunk_number, chunk_hash, bytes,
                                         delete_file_if_exists(chunk_files, chunk_path),
                                         delete_chunk_by_id(chunks, chunk.id))
                ELSE save_chunk(upload_id, chunk_number, chunk_hash, bytes,
                                delete_file_if_exists(chunk_files, chunk_path), chunks)

UploadChunkOf(ids) ==
    \E upload_id \in ids \cup {EmptyId}, chunk_number \in 0..MaxChunks,
       chunk_hash \in ChunkHashes, bytes \in ChunkBodies :
        /\ upload_chunk(upload_id, chunk_number, chunk_hash, bytes)
        /\ UNCHANGED <<tampered, reqs, outside>>

UploadChunk == UploadChunkOf(FileIds)

\* -------------------------------------------------------- complete_upload
\* mutant: the rows sorted by chunk_number descending
RECURSIVE SortByChunkNumber_descending(_)
SortByChunkNumber_descending(rows) ==
    IF rows = {} THEN << >>
    ELSE LET first == CHOOSE c \in rows : \A d \in rows : c.chunk_number >= d.chunk_number
         IN  <<first>> \o SortByChunkNumber_descending(rows \ {first})

\* the rows sorted by chunk_number ascending
RECURSIVE SortByChunkNumber(_)
SortByChunkNumber(rows) ==
    IF rows = {} THEN << >>
    ELSE LET first == CHOOSE c \in rows : \A d \in rows : c.chunk_number <= d.chunk_number
         IN  <<first>> \o SortByChunkNumber(rows \ {first})

\* mutant: the copy loop goes on to the next chunk when a file is missing
RECURSIVE merge_loop_skipping_missing(_, _, _, _, _)
merge_loop_skipping_missing(rows, i, total_size, out, expected_size) ==
    IF i > Len(rows)
    THEN [is_err |-> total_size # expected_size,
          msg |-> IF total_size # expected_size THEN "File size mismatch" ELSE "",
          out |-> out]
    ELSE LET chunk_path == get_chunk_file(rows[i].upload_id, rows[i].chunk_number)
         IN  IF ~exists_file(chunk_files, chunk_path)
             THEN merge_loop_skipping_missing(rows, i + 1, total_size, out, expected_size)
             ELSE LET chunk_data == chunk_files[chunk_path]
                  IN  IF total_size + Len(chunk_data) > expected_size
                      THEN [is_err |-> TRUE, msg |-> "File size exceeds expected size",
                            out |-> out]
                      ELSE merge_loop_skipping_missing(rows, i + 1,
                                                       total_size + Len(chunk_data),
                                                       out \o chunk_data, expected_size)

\* mutant: the copy loop without the comparison that follows it
RECURSIVE merge_loop_without_final_check(_, _, _, _, _)
merge_loop_without_final_check(rows, i, total_size, out, expected_size) ==
    IF i > Len(rows)
    THEN [is_err |-> FALSE, msg |-> "", out |-> out]
    ELSE LET chunk_path == get_chunk_file(rows[i].upload_id, rows[i].chunk_number)
         IN  IF ~exists_file(chunk_files, chunk_path)
             THEN [is_err |-> TRUE, msg |-> "Chunk file not found", out |-> out]
             ELSE LET chunk_data == chunk_files[chunk_path]
                  IN  IF total_size + Len(chunk_data) > expected_size
                      THEN [is_err |-> TRUE, msg |-> "File size exceeds expected size",
                            out |-> out]
                      ELSE merge_loop_without_final_check(rows, i + 1,
                                                          total_size + Len(chunk_data),
                                                          out \o chunk_data, expected_size)

\* the copy loop of merge_chunks from position i on; out is what has been
\* written to the output file
RECURSIVE merge_loop(_, _, _, _, _)
merge_loop(rows, i, total_size, out, expected_size) ==
    IF i > Len(rows)
    THEN [is_err |-> total_size # expected_size,
          msg |-> IF total_size # expected_size THEN "File size mismatch" ELSE "",
          out |-> out]
    ELSE LET chunk_path == get_chunk_file(rows[i].upload_id, rows[i].chunk_number)
         IN  IF ~exists_file(chunk_files, chunk_path)
             THEN [is_err |-> TRUE, msg |-> "Chunk file not found", out |-> out]
             ELSE LET chunk_data == chunk_files[chunk_path]
                  IN  IF total_size + Len(chunk_data) > expected_size
                      THEN [is_err |-> TRUE, msg |-> "File size exceeds expected size",
                            out |-> out]
                      ELSE merge_loop(rows, i + 1, total_size + Len(chunk_data),
                                      out \o chunk_data, expected_size)

\* mutant: merge_chunks refuses an output file that exists (create_new)
merge_chunks_create_new(upload_item) ==
    LET output_path == upload_item.file_path
        expected_size == upload_item.file_size
        created == WriteFile(storage_folder(output_path[1]), output_path, << >>)
        rows == SortByChunkNumber(get_upload_chunks(upload_item.id))
        total_size == SumSizes(rows, 1)
    IN  IF exists_file(storage_folder(output_path[1]), output_path)
        THEN [is_err |-> TRUE, msg |-> "Failed to create output file",
              dest_files |-> storage_folder(output_path[1])]
        ELSE IF total_size # expected_size
        THEN [is_err |-> TRUE, msg |-> "File size mismatch", dest_files |-> created]
        ELSE LET copied == merge_loop(rows, 1, 0, << >>, expected_size)
                 written == WriteFile(storage_folder(output_path[1]), output_path, copied.out)
             IN  IF copied.is_err
                 THEN [is_err |-> TRUE, msg |-> copied.msg, dest_files |-> written]
                 ELSE IF check_file_hash(written, output_path, upload_item.id).is_err
                 THEN [is_err |-> TRUE, msg |-> "io error", dest_files |-> written]
                 ELSE [is_err |-> FALSE, msg |-> "", dest_files |-> written]

\* mutant: merge_chunks without the size check that precedes the copy
merge_chunks_no_size_precheck(upload_item) ==
    LET output_path == upload_item.file_path
        expected_size == upload_item.file_size
        rows == SortByChunkNumber(get_upload_chunks(upload_item.id))
        copied == merge_loop(rows, 1, 0, << >>, expected_size)
        written == WriteFile(storage_folder(output_path[1]), output_path, copied.out)
    IN  IF copied.is_err
        THEN [is_err |-> TRUE, msg |-> copied.msg, dest_files |-> written]
        ELSE IF check_file_hash(written, output_path, upload_item.id).is_err
        THEN [is_err |-> TRUE, msg |-> "io error", dest_files |-> written]
        ELSE [is_err |-> FALSE, msg |-> "", dest_files |-> written]

\* [is_err, msg, dest_files]: the outcome of merge_chunks and the files it leaves
merge_chunks(upload_item) ==
    LET output_path == upload_item.file_path
        expected_size == upload_item.file_size
        created == WriteFile(storage_folder(output_path[1]), output_path, << >>)
        rows == SortByChunkNumber(get_upload_chunks(upload_item.id))
        total_size == SumSizes(rows, 1)
    IN  IF total_size # expected_size
        THEN [is_err |-> TRUE, msg |-> "File size mismatch", dest_files |-> created]
        ELSE LET copied == merge_loop(rows, 1, 0, << >>, expected_size)
                 written == WriteFile(storage_folder(output_path[1]), output_path, copied.out)
             IN  IF copied.is_err
                 THEN [is_err |-> TRUE, msg |-> copied.msg, dest_files |-> written]
                 ELSE IF check_file_hash(written, output_path, upload_item.id).is_err
                 THEN [is_err |-> TRUE, msg |-> "io error", dest_files |-> written]
                 ELSE [is_err |-> FALSE, msg |-> "", dest_files |-> written]

remove_dir_all(fs, upload_id) == [q \in {p \in DOMAIN fs : p[1] # upload_id} |-> fs[q]]

\* A remove_dir_all that returns Err removes nothing: the directory and its
\* files are still there.  Such a failure is one of the MaxTamper faults of
\* the storage folder in a run.
remove_dir_all_failed(fs, upload_id) == fs

\* mutant: a session that is not found is answered like a failed query
complete_upload_not_found_as_500(upload_id) ==
    IF get_upload_item(upload_id) = {}
    THEN /\ resp' = Response("complete", upload_id, 500, "Failed to query file metadata")
         /\ UNCHANGED <<uploads, chunks, next_chunk_id, dirs, chunk_files, dest_files,
                        tampered>>
    ELSE LET upload_item == uploads[upload_id]
             merged == merge_chunks(upload_item)
             output_path == upload_item.file_path
             dest_merged == dest_files_after(merged.dest_files, output_path)
             chunk_merged == chunk_files_after(merged.dest_files, output_path)
         IN  /\ UNCHANGED <<chunks, next_chunk_id>>
             /\ IF merged.is_err
                THEN /\ resp' = [Response("complete", upload_id, 500, "Failed to merge chunks")
                                    EXCEPT !.error = merged.msg]
                     /\ dest_files' = dest_merged
                     /\ chunk_files' = chunk_merged
                     /\ dirs' = dirs_after(output_path)
                     /\ UNCHANGED <<uploads, tampered>>
                ELSE /\ uploads' = [uploads EXCEPT ![upload_id].status = Completed]
                     /\ \/ /\ dirs' = dirs_after(output_path) \ {upload_id}
                           /\ chunk_files' = remove_dir_all(chunk_merged, upload_id)
                           /\ dest_files' = remove_nested(dest_merged, upload_id)
                           /\ UNCHANGED tampered
                        \/ /\ tampered < MaxTamper
                           /\ tampered' = tampered + 1
                           /\ dirs' = dirs_after(output_path)
                           /\ chunk_files' = remove_dir_all_failed(chunk_merged, upload_id)
                           /\ dest_files' = dest_merged
                     /\ resp' = Response("complete", upload_id, 200,
                                         "File uploaded and verified successfully")

\* mutant: a temp directory that cannot be removed fails the request
complete_upload_remove_dir_fatal(upload_id) ==
    IF get_upload_item(upload_id) = {}
    THEN /\ resp' = Response("complete", upload_id, 404, "File not found")
         /\ UNCHANGED <<uploads, chunks, next_chunk_id, dirs, chunk_files, dest_files,
                        tampered>>
    ELSE LET upload_item == uploads[upload_id]
             merged == merge_chunks(upload_item)
             output_path == upload_item.file_path
             dest_merged == dest_files_after(merged.dest_files, output_path)
             chunk_merged == chunk_files_after(merged.dest_files, output_path)
         IN  /\ UNCHANGED <<chunks, next_chunk_id>>
             /\ IF merged.is_err
                THEN /\ resp' = [Response("complete", upload_id, 500, "Failed to merge chunks")
                                    EXCEPT !.error = merged.msg]
                     /\ dest_files' = dest_merged
                     /\ chunk_files' = chunk_merged
                     /\ dirs' = dirs_after(output_path)
                     /\ UNCHANGED <<uploads, tampered>>
                ELSE /\ uploads' = [uploads EXCEPT ![upload_id].status = Completed]
                     /\ \/ /\ dirs' = dirs_after(output_path) \ {upload_id}
                           /\ chunk_files' = remove_dir_all(chunk_merged, upload_id)
                           /\ dest_files' = remove_nested(dest_merged, upload_id)
                           /\ UNCHANGED tampered
                           /\ resp' = Response("complete", upload_id, 200,
                                               "File uploaded and verified successfully")
                        \/ /\ tampered < MaxTamper
                           /\ tampered' = tampered + 1
                           /\ dirs' = dirs_after(output_path)
                           /\ chunk_files' = remove_dir_all_failed(chunk_merged, upload_id)
                           /\ dest_files' = dest_merged
                           /\ resp' = Response("complete", upload_id, 500,
                                               "Failed to remove chunk directory")

\* the handler: the session is looked up, the chunks are merged, the status
\* is updated and the temp directory removed; the error of a failed merge
\* goes to the log and the body of the answer is always the same
complete_upload(upload_id) ==
    IF get_upload_item(upload_id) = {}
    THEN /\ resp' = Response("complete", upload_id, 404, "File not found")
         /\ UNCHANGED <<uploads, chunks, next_chunk_id, dirs, chunk_files, dest_files,
                        tampered>>
    ELSE LET upload_item == uploads[upload_id]
             merged == merge_chunks(upload_item)
             output_path == upload_item.file_path
             dest_merged == dest_files_after(merged.dest_files, output_path)
             chunk_merged == chunk_files_after(merged.dest_files, output_path)
         IN  /\ UNCHANGED <<chunks, next_chunk_id>>
             /\ IF merged.is_err
                THEN /\ resp' = [Response("complete", upload_id, 500, "Failed to merge chunks")
                                    EXCEPT !.error = merged.msg]
                     /\ dest_files' = dest_merged
                     /\ chunk_files' = chunk_merged
                     /\ dirs' = dirs_after(output_path)
                     /\ UNCHANGED <<uploads, tampered>>
                ELSE /\ uploads' = [uploads EXCEPT ![upload_id].status = Completed]
                     /\ \/ /\ dirs' = dirs_after(output_path) \ {upload_id}
                           /\ chunk_files' = remove_dir_all(chunk_merged, upload_id)
                           /\ dest_files' = remove_nested(dest_merged, upload_id)
                           /\ UNCHANGED tampered
                        \/ /\ tampered < MaxTamper
                           /\ tampered' = tampered + 1
                           /\ dirs' = dirs_after(output_path)
                           /\ chunk_files' = remove_dir_all_failed(chunk_merged, upload_id)
                           /\ dest_files' = dest_merged
                     /\ resp' = Response("complete", upload_id, 200,
                                         "File uploaded and verified successfully")

CompleteUploadOf(ids) ==
    \E upload_id \in ids :
        /\ complete_upload(upload_id)
        /\ UNCHANGED <<reqs, outside>>

CompleteUpload == CompleteUploadOf(FileIds)

\* ------------------------------------------------------------ environment
\* What check_file is there to detect: a file of the storage folder is
\* removed or overwritten from outside the server (crash, disk tampering).
LoseChunkFile ==
    \E p \in DOMAIN chunk_files :
        /\ tampered < MaxTamper
        /\ tampered' = tampered + 1
        /\ chunk_files' = RemoveFile(chunk_files, p)
        /\ UNCHANGED <<uploads, chunks, next_chunk_id, dirs, dest_files, resp, reqs, outside>>

CorruptChunkFile ==
    \E p \in DOMAIN chunk_files, bytes \in ChunkBodies :
        /\ tampered < MaxTamper
        /\ tampered' = tampered + 1
        /\ bytes # chunk_files[p]
        /\ chunk_files' = WriteFile(chunk_files, p, bytes)
        /\ UNCHANGED <<uploads, chunks, next_chunk_id, dirs, dest_files, resp, reqs, outside>>

LoseDestFile ==
    \E p \in DOMAIN dest_files :
        /\ tampered < MaxTamper
        /\ tampered' = tampered + 1
        /\ dest_files' = RemoveFile(dest_files, p)
        /\ UNCHANGED <<uploads, chunks, next_chunk_id, dirs, chunk_files, resp, reqs, outside>>

CorruptDestFile ==
    \E p \in DOMAIN dest_files, bytes \in ChunkBodies :
        /\ tampered < MaxTamper
        /\ tampered' = tampered + 1
        /\ bytes # dest_files[p]
        /\ dest_files' = WriteFile(dest_files, p, bytes)
        /\ UNCHANGED <<uploads, chunks, next_chunk_id, dirs, chunk_files, resp, reqs, outside>>

\* What the size checks of the copy loop are there to detect: between the
\* last UploadChunk and the CompleteUpload, the file of a chunk that was
\* recorded is overwritten from outside with content of another length.
ResizedBodies == {<< >>, <<1, 2>>}

ResizeChunkFile ==
    \E p \in DOMAIN chunk_files, bytes \in ResizedBodies :
        /\ tampered < MaxTamper
        /\ tampered' = tampered + 1
        /\ Len(bytes) # Len(chunk_files[p])
        /\ \E c \in chunks :
              /\ p = get_chunk_file(c.upload_id, c.chunk_number)
              /\ Sha256(chunk_files[p]) = c.chunk_hash
              /\ c.upload_id \in DOMAIN uploads
              /\ SumSizes(SortByChunkNumber(get_upload_chunks(c.upload_id)), 1)
                    = uploads[c.upload_id].file_size
        /\ chunk_files' = WriteFile(chunk_files, p, bytes)
        /\ UNCHANGED <<uploads, chunks, next_chunk_id, dirs, dest_files, resp, reqs, outside>>

Next ==
    \/ InitUpload
    \/ UploadChunk
    \/ CompleteUpload
    \/ LoseChunkFile
    \/ CorruptChunkFile
    \/ LoseDestFile
    \/ CorruptDestFile

Spec == Init /\ [][Next]_vars

\* The same server when every client uploads the same file: one session.
OneFile == {Sha256(<<1, 2>>)}

InitUploadOne == InitUploadOf(OneFile)

UploadChunkOne == UploadChunkOf(OneFile)

CompleteUploadOne == CompleteUploadOf(OneFile)

NextOne ==
    \/ InitUploadOne
    \/ UploadChunkOne
    \/ CompleteUploadOne
    \/ LoseChunkFile
    \/ CorruptChunkFile
    \/ LoseDestFile
    \/ CorruptDestFile

SpecOne == Init /\ [][NextOne]_vars

\* A session that is being uploaded, with interruptions and resumptions,
\* while its chunk files are removed or overwritten from outside.
NextUploading ==
    \/ InitUploadOne
    \/ UploadChunkOne
    \/ LoseChunkFile
    \/ CorruptChunkFile

SpecUploading == Init /\ [][NextUploading]_vars

\* Two files of the same name on a storage folder nobody else touches: the
\* sessions of both are opened, the chunks of one of them are uploaded and
\* merged.
NextTwo ==
    \/ InitUpload
    \/ UploadChunkOne
    \/ CompleteUploadOne

SpecTwo == Init /\ [][NextTwo]_vars

\* One file is uploaded and merged while the chunk files change their
\* length on disk behind the chunk rows.
NextMerge ==
    \/ InitUploadOne
    \/ UploadChunkOne
    \/ CompleteUploadOne
    \/ ResizeChunkFile

SpecMerge == Init /\ [][NextMerge]_vars

\* Two files are uploaded and merged; the client of the first one declares
\* a file name that is a path below the temp directory of the second.
InitUploadNested ==
    \E file_name \in NestedFileNames, file_size \in FileSizes, file_hash \in OneFile :
        /\ init_upload(file_name, file_size, file_hash)
        /\ UNCHANGED <<tampered, reqs, outside>>

InitUploadOther == InitUploadOf(FileIds \ OneFile)

NextFolder ==
    \/ InitUploadNested
    \/ InitUploadOther
    \/ UploadChunk
    \/ CompleteUpload

SpecFolder == Init /\ [][NextFolder]_vars

\* ------------------------------------ upload_chunk, one await after another
\* The handlers are async fns on a multi-threaded server: between two awaits
\* of one request any other request may run.  Each action below is the code
\* of upload_chunk from one await to the next, for the request r.
Goto(r, pc) == reqs' = [reqs EXCEPT ![r].pc = pc]

\* the handler returns: what the request carried and the answer are kept
Return(r, code, body) ==
    reqs' = [reqs EXCEPT ![r].pc = "done", ![r].chunk = NoChunk,
                         ![r].code = code, ![r].body = body]

InFlight(r) == reqs[r].pc \notin {"idle", "done"}

\* the request arrives: validation, get_upload_item, the status check
upload_chunk_get_upload_item(r, upload_id, chunk_number, chunk_hash, bytes) ==
    LET req == [Idle EXCEPT !.upload_id = upload_id, !.chunk_number = chunk_number,
                            !.chunk_hash = chunk_hash, !.bytes = bytes]
        answer(code, body) == [req EXCEPT !.pc = "done", !.code = code, !.body = body]
    IN  /\ reqs[r].pc = "idle"
        /\ reqs' = [reqs EXCEPT ![r] =
                IF upload_id = EmptyId \/ chunk_number <= 0
                THEN answer(400, "Missing or invalid required fields")
                ELSE IF get_upload_item(upload_id) = {}
                THEN answer(404, "Upload item not found")
                ELSE IF uploads[upload_id].status = Completed
                THEN answer(400, "File already completed")
                ELSE [req EXCEPT !.pc = "create_dir_all"]]
        /\ UNCHANGED <<uploads, chunks, next_chunk_id, dirs, chunk_files, dest_files,
                       resp, tampered, outside>>

upload_chunk_create_dir_all(r) ==
    /\ reqs[r].pc = "create_dir_all"
    /\ dirs' = dirs \cup {reqs[r].upload_id}
    /\ Goto(r, "get_chunk_by_number")
    /\ UNCHANGED <<uploads, chunks, next_chunk_id, chunk_files, dest_files, resp, tampered, outside>>

upload_chunk_get_chunk_by_number(r) ==
    LET existing == get_chunk_by_number(chunks, reqs[r].upload_id, reqs[r].chunk_number)
    IN  /\ reqs[r].pc = "get_chunk_by_number"
        /\ reqs' = [reqs EXCEPT ![r] =
                IF existing # {}
                THEN [@ EXCEPT !.pc = "check_file", !.chunk = CHOOSE c \in existing : TRUE]
                ELSE [@ EXCEPT !.pc = "delete_file_if_exists"]]
        /\ UNCHANGED <<uploads, chunks, next_chunk_id, dirs, chunk_files, dest_files,
                       resp, tampered, outside>>

upload_chunk_check_file(r) ==
    LET chunk_path == get_chunk_file(reqs[r].upload_id, reqs[r].chunk_number)
    IN  /\ reqs[r].pc = "check_file"
        /\ IF check_file(chunk_files, chunk_path, reqs[r].chunk.chunk_hash) = Valid
           THEN Return(r, 200, "Chunk already uploaded")
           ELSE Goto(r, "delete_file_if_exists")
        /\ UNCHANGED <<uploads, chunks, next_chunk_id, dirs, chunk_files, dest_files,
                       resp, tampered, outside>>

\* of the Invalid branch when a row was found, of the Ok(None) branch otherwise
upload_chunk_delete_file_if_exists(r) ==
    LET chunk_path == get_chunk_file(reqs[r].upload_id, reqs[r].chunk_number)
    IN  /\ reqs[r].pc = "delete_file_if_exists"
        /\ chunk_files' = delete_file_if_exists(chunk_files, chunk_path)
        /\ IF reqs[r].chunk # NoChunk THEN Goto(r, "delete_chunk_by_id") ELSE Goto(r, "copy")
        /\ UNCHANGED <<uploads, chunks, next_chunk_id, dirs, dest_files, resp, tampered, outside>>

upload_chunk_delete_chunk_by_id(r) ==
    /\ reqs[r].pc = "delete_chunk_by_id"
    /\ chunks' = delete_chunk_by_id(chunks, reqs[r].chunk.id)
    /\ Goto(r, "copy")
    /\ UNCHANGED <<uploads, next_chunk_id, dirs, chunk_files, dest_files, resp, tampered, outside>>

\* async_fs::copy fails when the directory of the chunk is not there
upload_chunk_copy(r) ==
    LET chunk_path == get_chunk_file(reqs[r].upload_id, reqs[r].chunk_number)
    IN  /\ reqs[r].pc = "copy"
        /\ IF reqs[r].upload_id \in dirs
           THEN /\ chunk_files' = WriteFile(chunk_files, chunk_path, reqs[r].bytes)
                /\ Goto(r, "check_file_hash")
           ELSE /\ UNCHANGED chunk_files
                /\ Return(r, 500, "Failed to save chunk")
        /\ UNCHANGED <<uploads, chunks, next_chunk_id, dirs, dest_files, resp, tampered, outside>>

upload_chunk_check_file_hash(r) ==
    LET chunk_path == get_chunk_file(reqs[r].upload_id, reqs[r].chunk_number)
    IN  /\ reqs[r].pc = "check_file_hash"
        /\ IF check_file_hash(chunk_files, chunk_path, reqs[r].chunk_hash).is_err
           THEN /\ chunk_files' = RemoveFile(chunk_files, chunk_path)
                /\ Return(r, 400, "Chunk hash verification failed")
           ELSE /\ UNCHANGED chunk_files
                /\ Goto(r, "insert_chunk")
        /\ UNCHANGED <<uploads, chunks, next_chunk_id, dirs, dest_files, resp, tampered, outside>>

upload_chunk_insert_chunk(r) ==
    LET chunk == [id |-> next_chunk_id, upload_id |-> reqs[r].upload_id,
                  chunk_number |-> reqs[r].chunk_number,
                  chunk_size |-> Len(reqs[r].bytes), chunk_hash |-> reqs[r].chunk_hash]
    IN  /\ reqs[r].pc = "insert_chunk"
        /\ IF ~insert_chunk_ok(chunks, uploads, chunk)
           THEN /\ UNCHANGED <<chunks, next_chunk_id>>
                /\ Return(r, 500, "Failed to insert chunk")
           ELSE /\ next_chunk_id <= MaxChunkId
                /\ chunks' = chunks \cup {chunk}
                /\ next_chunk_id' = next_chunk_id + 1
                /\ Return(r, 200, "Chunk uploaded successfully")
        /\ UNCHANGED <<uploads, dirs, chunk_files, dest_files, resp, tampered, outside>>

\* the requests rs carry chunks of the one file
ChunkGetUploadItemOf(rs) ==
    \E r \in rs, upload_id \in OneFile, chunk_number \in ChunkNumbers,
       chunk_hash \in ChunkHashes, bytes \in ChunkBodies :
        upload_chunk_get_upload_item(r, upload_id, chunk_number, chunk_hash, bytes)

\* Two requests that interleave while the session is being uploaded; an
\* init_upload of the same file may come at any time.
ChunkGetUploadItem == ChunkGetUploadItemOf(Requests)

ChunkCreateDirAll == \E r \in Requests : upload_chunk_create_dir_all(r)

ChunkGetChunkByNumber == \E r \in Requests : upload_chunk_get_chunk_by_number(r)

ChunkCheckFile == \E r \in Requests : upload_chunk_check_file(r)

ChunkDeleteFileIfExists == \E r \in Requests : upload_chunk_delete_file_if_exists(r)

ChunkDeleteChunkById == \E r \in Requests : upload_chunk_delete_chunk_by_id(r)

ChunkCopy == \E r \in Requests : upload_chunk_copy(r)

ChunkCheckFileHash == \E r \in Requests : upload_chunk_check_file_hash(r)

ChunkInsertChunk == \E r \in Requests : upload_chunk_insert_chunk(r)

NextChunks ==
    \/ InitUploadOne
    \/ ChunkGetUploadItem
    \/ ChunkCreateDirAll
    \/ ChunkGetChunkByNumber
    \/ ChunkCheckFile
    \/ ChunkDeleteFileIfExists
    \/ ChunkDeleteChunkById
    \/ ChunkCopy
    \/ ChunkCheckFileHash
    \/ ChunkInsertChunk

SpecChunks == Init /\ [][NextChunks]_vars

\* One request that is served await by await while the other requests for
\* the same file, complete_upload among them, are served from start to end.
SlowRequest == 1

SlowGetUploadItem == ChunkGetUploadItemOf({SlowRequest})

SlowCreateDirAll == upload_chunk_create_dir_all(SlowRequest)

SlowGetChunkByNumber == upload_chunk_get_chunk_by_number(SlowRequest)

SlowCheckFile == upload_chunk_check_file(SlowRequest)

SlowDeleteFileIfExists == upload_chunk_delete_file_if_exists(SlowRequest)

SlowDeleteChunkById == upload_chunk_delete_chunk_by_id(SlowRequest)

SlowCopy == upload_chunk_copy(SlowRequest)

SlowCheckFileHash == upload_chunk_check_file_hash(SlowRequest)

SlowInsertChunk == upload_chunk_insert_chunk(SlowRequest)

NextConc ==
    \/ InitUploadOne
    \/ UploadChunkOne
    \/ CompleteUploadOne
    \/ SlowGetUploadItem
    \/ SlowCreateDirAll
    \/ SlowGetChunkByNumber
    \/ SlowCheckFile
    \/ SlowDeleteFileIfExists
    \/ SlowDeleteChunkById
    \/ SlowCopy
    \/ SlowCheckFileHash
    \/ SlowInsertChunk

SpecConc == Init /\ [][NextConc]_vars

\* ------------------------------------- init_upload, one await after another
\* Each action below is the code of init_upload and of the functions it
\* calls from one await to the next, for the request r.
InitGoto(r, pc) == inits' = [inits EXCEPT ![r].pc = pc]

InitReturn(r, code, status, body) ==
    inits' = [inits EXCEPT ![r].pc = "done", ![r].code = code, ![r].status = status,
                           ![r].body = body]

InitInFlight(r) == inits[r].pc \notin {"idle", "done"}

\* the request arrives: get_upload_item and the match on the status
init_upload_get_upload_item(r, file_name, file_size, file_hash) ==
    LET req == [IdleInit EXCEPT !.file_name = file_name, !.file_size = file_size,
                                !.file_hash = file_hash]
    IN  /\ inits[r].pc = "idle"
        /\ inits' = [inits EXCEPT ![r] =
                IF get_upload_item(file_hash) = {}
                THEN [req EXCEPT !.pc = "get_available_filename"]
                ELSE IF uploads[file_hash].status = Completed
                THEN [req EXCEPT !.pc = "check_file", !.upload_item = uploads[file_hash]]
                ELSE [req EXCEPT !.pc = "handle_uploading_upload",
                                 !.upload_item = uploads[file_hash]]]
        /\ UNCHANGED <<uploads, chunks, next_chunk_id, dirs, chunk_files, dest_files,
                       resp, tampered>>

\* the session is Uploading: the clean-up of its chunks and the answer
init_upload_handle_uploading_upload(r) ==
    /\ inits[r].pc = "handle_uploading_upload"
    /\ handle_uploading_upload(inits[r].upload_item)
    /\ InitReturn(r, 200, Uploading, "")
    /\ UNCHANGED tampered

\* handle_completed_upload: the destination file of the row that was read
init_upload_check_file(r) ==
    LET upload_item == inits[r].upload_item
    IN  /\ inits[r].pc = "check_file"
        /\ IF check_file(storage_folder(upload_item.file_path[1]), upload_item.file_path,
                         upload_item.id) = Valid
           THEN InitReturn(r, 200, Completed, "")
           ELSE InitGoto(r, "delete_chunks")
        /\ UNCHANGED <<uploads, chunks, next_chunk_id, dirs, chunk_files, dest_files,
                       resp, tampered>>

\* mutant: delete_upload_item that starts with the upload and leaves the
\* chunks to its second statement, on a table without FK_upload_id
init_upload_delete_uploads_first(r) ==
    /\ inits[r].pc = "delete_chunks"
    /\ uploads' = delete_upload_item_uploads(uploads, inits[r].upload_item.id)
    /\ InitGoto(r, "delete_uploads")
    /\ UNCHANGED <<chunks, next_chunk_id, dirs, chunk_files, dest_files, resp, tampered>>

\* delete_upload_item, its first statement: the chunks of the upload
init_upload_delete_chunks(r) ==
    /\ inits[r].pc = "delete_chunks"
    /\ chunks' = delete_upload_item_chunks(chunks, inits[r].upload_item.id)
    /\ InitGoto(r, "delete_uploads")
    /\ UNCHANGED <<uploads, next_chunk_id, dirs, chunk_files, dest_files, resp, tampered>>

\* delete_upload_item, its second statement: the upload; when the database
\* refuses or fails to execute it the handler answers 500
init_upload_delete_uploads(r) ==
    /\ inits[r].pc = "delete_uploads"
    /\ \/ /\ delete_upload_item_uploads_ok(chunks, inits[r].upload_item.id)
          /\ uploads' = delete_upload_item_uploads(uploads, inits[r].upload_item.id)
          /\ InitGoto(r, "get_available_filename")
          /\ UNCHANGED tampered
       \/ /\ ~delete_upload_item_uploads_ok(chunks, inits[r].upload_item.id)
          /\ InitReturn(r, 500, "", "Failed to delete invalid upload item")
          /\ UNCHANGED <<uploads, tampered>>
       \/ /\ tampered < MaxTamper
          /\ tampered' = tampered + 1
          /\ InitReturn(r, 500, "", "Failed to delete invalid upload item")
          /\ UNCHANGED uploads
    /\ UNCHANGED <<chunks, next_chunk_id, dirs, chunk_files, dest_files, resp>>

\* create_upload_item up to the insert
init_upload_get_available_filename(r) ==
    /\ inits[r].pc = "get_available_filename"
    /\ FirstFree(storage_folder(inits[r].file_name), inits[r].file_name, 0) <= MaxCounter
    /\ inits' = [inits EXCEPT ![r].pc = "insert_upload_item",
                              ![r].file_path =
                                  get_available_filename(storage_folder(inits[r].file_name),
                                                         inits[r].file_name)]
    /\ UNCHANGED <<uploads, chunks, next_chunk_id, dirs, chunk_files, dest_files,
                   resp, tampered>>

init_upload_insert_upload_item(r) ==
    LET item == [id |-> inits[r].file_hash, file_name |-> inits[r].file_name,
                 file_size |-> inits[r].file_size, file_path |-> inits[r].file_path,
                 status |-> Uploading]
    IN  /\ inits[r].pc = "insert_upload_item"
        /\ IF insert_upload_item_ok(uploads, item)
           THEN /\ uploads' = insert_upload_item(uploads, item)
                /\ InitReturn(r, 200, Uploading, "")
           ELSE /\ UNCHANGED uploads
                /\ InitReturn(r, 500, "", "")
        /\ UNCHANGED <<chunks, next_chunk_id, dirs, chunk_files, dest_files, resp, tampered>>

\* One init_upload that is served await by await while the other requests
\* for the same file are served from start to end.
after_init == <<reqs, host, returned, disk, shares, database>>

SlowInitGetUploadItem ==
    \E file_name \in FileNames, file_size \in FileSizes, file_hash \in OneFile :
        /\ init_upload_get_upload_item(SlowRequest, file_name, file_size, file_hash)
        /\ UNCHANGED after_init

SlowInitHandleUploadingUpload ==
    init_upload_handle_uploading_upload(SlowRequest) /\ UNCHANGED after_init

SlowInitCheckFile == init_upload_check_file(SlowRequest) /\ UNCHANGED after_init

SlowInitDeleteChunks == init_upload_delete_chunks(SlowRequest) /\ UNCHANGED after_init

SlowInitDeleteUploads == init_upload_delete_uploads(SlowRequest) /\ UNCHANGED after_init

SlowInitGetAvailableFilename ==
    init_upload_get_available_filename(SlowRequest) /\ UNCHANGED after_init

SlowInitInsertUploadItem ==
    init_upload_insert_upload_item(SlowRequest) /\ UNCHANGED after_init

NextReset ==
    \/ InitUploadOne
    \/ UploadChunkOne
    \/ CompleteUploadOne
    \/ SlowInitGetUploadItem
    \/ SlowInitHandleUploadingUpload
    \/ SlowInitCheckFile
    \/ SlowInitDeleteChunks
    \/ SlowInitDeleteUploads
    \/ SlowInitGetAvailableFilename
    \/ SlowInitInsertUploadItem

SpecReset == Init /\ [][NextReset]_vars

\* ------------------------------------------------ util.rs, call after call
\* what the calls of the utilities and the changes of the files leave alone
beside_disk ==
    <<uploads, chunks, next_chunk_id, dirs, chunk_files, dest_files, resp, tampered,
      reqs, inits, host, shares, database>>

\* the files at the paths ps change: bytes are written to a path, the path
\* is removed, a directory is made of it, the reading of it is forbidden
WriteBytesAt(ps, contents) ==
    \E p \in ps, bytes \in contents :
        /\ disk' = [disk EXCEPT ![p] = RegularFile(bytes)]
        /\ UNCHANGED <<beside_disk, returned>>

RemovePathAt(ps) ==
    \E p \in ps :
        /\ disk' = [disk EXCEPT ![p] = NotFound]
        /\ UNCHANGED <<beside_disk, returned>>

MakeDirectoryAt(ps) ==
    \E p \in ps :
        /\ disk' = [disk EXCEPT ![p] = Directory]
        /\ UNCHANGED <<beside_disk, returned>>

DenyAccessAt(ps) ==
    \E p \in ps :
        /\ disk' = [disk EXCEPT ![p] = PermissionDenied]
        /\ UNCHANGED <<beside_disk, returned>>

\* the utilities are called on one path, which holds any content in turn
UtilPaths == {"b"}

WriteBytes == WriteBytesAt(UtilPaths, Contents)

RemovePath == RemovePathAt(UtilPaths)

MakeDirectory == MakeDirectoryAt(UtilPaths)

DenyAccess == DenyAccessAt(UtilPaths)

ExistsFile ==
    \E p \in UtilPaths :
        /\ returned' = [op |-> "exists_file", path |-> p, expected_hash |-> 0,
                        result |-> exists_file_result(disk[p])]
        /\ UNCHANGED <<beside_disk, disk>>

CheckFile ==
    \E p \in UtilPaths, expected \in Contents :
        /\ returned' = [op |-> "check_file", path |-> p, expected_hash |-> Sha256(expected),
                        result |-> check_file_result(disk[p], Sha256(expected))]
        /\ UNCHANGED <<beside_disk, disk>>

NextUtil ==
    \/ WriteBytes
    \/ RemovePath
    \/ MakeDirectory
    \/ DenyAccess
    \/ ExistsFile
    \/ CheckFile

SpecUtil == Init /\ [][NextUtil]_vars

\* -------------------------------------------------------- stream_download
\* the ids of the shares the clients ask for
ShareIds == {1, 2}

\* the content type NamedFile infers from the extension of the file name
mime_from_path(path) ==
    IF path = "a.txt" THEN "text/plain" ELSE "application/octet-stream"

\* mutant: the file is served as it is whatever force_download says
stream_download_ignoring_force(file_id, force_download) ==
    IF file_id \notin DOMAIN shares
    THEN resp' = Response("stream", file_id, 404, "File not found")
    ELSE LET file_path == shares[file_id].file_path
         IN  IF File_open(disk[file_path]).is_err
             THEN resp' = Response("stream", file_id, 404, "File not found")
             ELSE resp' = [Response("stream", file_id, 200, "")
                              EXCEPT !.content_type = mime_from_path(file_path)]

\* the handler: the share is looked up, its file is opened and served
stream_download(file_id, force_download) ==
    IF file_id \notin DOMAIN shares
    THEN resp' = Response("stream", file_id, 404, "File not found")
    ELSE LET file_path == shares[file_id].file_path
         IN  IF File_open(disk[file_path]).is_err
             THEN resp' = Response("stream", file_id, 404, "File not found")
             ELSE resp' = [Response("stream", file_id, 200, "")
                              EXCEPT !.content_type =
                                  IF force_download THEN "application/octet-stream"
                                  ELSE mime_from_path(file_path)]

\* what a request for a share and the changes of the shares leave alone
beside_shares ==
    <<uploads, chunks, next_chunk_id, dirs, chunk_files, dest_files, tampered,
      reqs, inits, host, returned, disk, database>>

StreamDownload ==
    \E file_id \in ShareIds, force_download \in BOOLEAN :
        /\ stream_download(file_id, force_download)
        /\ UNCHANGED <<beside_shares, shares>>

\* the user adds a file to the shares, or removes a share from the list
AddShare ==
    \E id \in ShareIds, file_path \in Paths :
        /\ id \notin DOMAIN shares
        /\ shares' = [k \in (DOMAIN shares) \cup {id} |->
                          IF k = id
                          THEN [id |-> id, file_name |-> file_path, file_path |-> file_path,
                                mime_type |-> mime_from_path(file_path)]
                          ELSE shares[k]]
        /\ UNCHANGED <<beside_shares, resp>>

RemoveShare ==
    \E id \in DOMAIN shares :
        /\ shares' = [k \in (DOMAIN shares) \ {id} |-> shares[k]]
        /\ UNCHANGED <<beside_shares, resp>>

\* the files that are shared: written, removed, made unreadable
SharedContents == {<<1>>}

WriteSharedFile == WriteBytesAt(Paths, SharedContents)

RemoveSharedFile == RemovePathAt(Paths)

DenySharedFile == DenyAccessAt(Paths)

NextDownload ==
    \/ StreamDownload
    \/ AddShare
    \/ RemoveShare
    \/ WriteSharedFile
    \/ RemoveSharedFile
    \/ DenySharedFile

SpecDownload == Init /\ [][NextDownload]_vars

\* ------------------------------------------------- ShareServer: start, stop
\* the tables, the storage folder and the requests: what start and stop and
\* the listener threads leave alone
engine == <<uploads, chunks, next_chunk_id, dirs, chunk_files, dest_files, resp, tampered,
            reqs, inits, disk, shares, database>>

\* Settings.port: the default and what the settings page may change it to
Ports == {12345, 12346}

\* the thread spawned by start: pc is where it is in the closure and in
\* start_server, signal the state of its oneshot channel
Spawned(port) == [pc |-> "spawned", port |-> port, signal |-> "none"]

\* a ShutdownToken is dropped without shutdown(): its receiver gets Err
drop_token(ls, token) ==
    IF token # NoToken /\ ls[token].signal = "none"
    THEN [ls EXCEPT ![token].signal = "dropped"]
    ELSE ls

\* mutant: start without the check of the state
start_without_state_check(port) ==
    /\ Len(listeners) < MaxStarts
    /\ shutdown_token' = Len(listeners) + 1
    /\ server_state' = On
    /\ listeners' = Append(drop_token(listeners, shutdown_token), Spawned(port))
    /\ returned' = [op |-> "start", warned |-> FALSE]

\* ShareServer::start: the token of the new channel is the number of the
\* thread that holds its receiver
start(port) ==
    IF server_state = On
    THEN /\ returned' = [op |-> "start", warned |-> TRUE]
         /\ UNCHANGED host
    ELSE /\ Len(listeners) < MaxStarts
         /\ shutdown_token' = Len(listeners) + 1
         /\ server_state' = On
         /\ listeners' = Append(drop_token(listeners, shutdown_token), Spawned(port))
         /\ returned' = [op |-> "start", warned |-> FALSE]

\* mutant: a stop that takes the token and sends nothing
stop_without_shutdown ==
    IF server_state = Off
    THEN /\ returned' = [op |-> "stop", warned |-> TRUE]
         /\ UNCHANGED host
    ELSE /\ shutdown_token' = NoToken
         /\ server_state' = Off
         /\ returned' = [op |-> "stop", warned |-> FALSE]
         /\ UNCHANGED listeners

\* ShareServer::stop
stop ==
    IF server_state = Off
    THEN /\ returned' = [op |-> "stop", warned |-> TRUE]
         /\ UNCHANGED host
    ELSE IF shutdown_token # NoToken
    THEN /\ listeners' = [listeners EXCEPT ![shutdown_token].signal = "sent"]
         /\ shutdown_token' = NoToken
         /\ server_state' = Off
         /\ returned' = [op |-> "stop", warned |-> FALSE]
    ELSE /\ returned' = [op |-> "stop", warned |-> FALSE]
         /\ UNCHANGED host

\* mutant: a bind that succeeds on a port that has a listener
bind_ok_shared_port(ls, port) == TRUE

\* bind("[::]:port") is refused while a listener holds the port
bind_ok(ls, port) == \A j \in DOMAIN ls : ~(ls[j].pc = "listening" /\ ls[j].port = port)

\* start_server up to bind: the port may also be held by another program,
\* and bind returns Err; connection() may return Err (mode=rw does not
\* create the database file), and unwrap() ends the thread with a panic
start_server_bind(k) ==
    /\ listeners[k].pc = "spawned"
    /\ \/ /\ bind_ok(listeners, listeners[k].port)
          /\ listeners' = [listeners EXCEPT ![k].pc = "listening"]
       \/ listeners' = [listeners EXCEPT ![k].pc = "failed"]
       \/ listeners' = [listeners EXCEPT ![k].pc = "panicked"]
    /\ UNCHANGED <<server_state, shutdown_token, returned>>

\* run().await ends with Ok when receive_shutdown_signal returns: the signal
\* was sent or its sender was dropped; it ends with Err when the server fails
start_server_run(k) ==
    /\ listeners[k].pc = "listening"
    /\ \/ /\ listeners[k].signal # "none"
          /\ listeners' = [listeners EXCEPT ![k].pc = "exited"]
       \/ listeners' = [listeners EXCEPT ![k].pc = "failed"]
    /\ UNCHANGED <<server_state, shutdown_token, returned>>

\* the closure of the thread after start_server returned Err
start_failed(k) ==
    /\ listeners[k].pc = "failed"
    /\ server_state' = Off
    /\ listeners' = [listeners EXCEPT ![k].pc = "exited"]
    /\ UNCHANGED <<shutdown_token, returned>>

\* start and stop take &mut self: the calls come one after the other from
\* the thread of the user interface, the listener threads run beside them
Start == \E port \in Ports : start(port) /\ UNCHANGED engine

Stop == stop /\ UNCHANGED engine

ListenerBind == \E k \in DOMAIN listeners : start_server_bind(k) /\ UNCHANGED engine

ListenerRun == \E k \in DOMAIN listeners : start_server_run(k) /\ UNCHANGED engine

ListenerFailed == \E k \in DOMAIN listeners : start_failed(k) /\ UNCHANGED engine

NextHost ==
    \/ Start
    \/ Stop
    \/ ListenerBind
    \/ ListenerRun
    \/ ListenerFailed

SpecHost == Init /\ [][NextHost]_vars

\* the runtime schedules the spawned threads: while some thread has a step
\* to take, a thread takes a step
ListenerStep == ListenerBind \/ ListenerRun \/ ListenerFailed

SpecHostFair == SpecHost /\ WF_vars(ListenerStep)

\* ------------------------------------------- SqliteDatabaseSource: connection
\* what the calls of connection() leave alone
beside_database ==
    <<uploads, chunks, next_chunk_id, dirs, chunk_files, dest_files, resp, tampered,
      reqs, inits, host, returned, disk, shares>>

\* connection, the block that holds the lock: the flag is read and set, and
\* the lock is released before anything is created
connection_lock(c) ==
    /\ callers[c].pc = "idle"
    /\ IF ~initialized
       THEN /\ initialized' = TRUE
            /\ callers' = [callers EXCEPT ![c] =
                               [pc |-> "create_sqlite_db", needs_init |-> TRUE, result |-> "none"]]
       ELSE /\ callers' = [callers EXCEPT ![c] =
                               [pc |-> "connect", needs_init |-> FALSE, result |-> "none"]]
            /\ UNCHANGED initialized
    /\ UNCHANGED <<db_file, migrations>>

\* create_sqlite_db up to Database::connect with mode=rwc, which creates the
\* file when it is not there
create_sqlite_db(c) ==
    /\ callers[c].pc = "create_sqlite_db"
    /\ db_file' = IF db_file = "absent" THEN "created" ELSE db_file
    /\ callers' = [callers EXCEPT ![c].pc = "migrate"]
    /\ UNCHANGED <<initialized, migrations>>

\* create_sqlite_db, Migrator::up: the tables are created
create_sqlite_db_migrate(c) ==
    /\ callers[c].pc = "migrate"
    /\ db_file' = "schema"
    /\ migrations' = migrations + 1
    /\ callers' = [callers EXCEPT ![c].pc = "connect"]
    /\ UNCHANGED initialized

\* connection, Database::connect with mode=rw: Err when the file is not there
connection_connect(c) ==
    /\ callers[c].pc = "connect"
    /\ callers' = [callers EXCEPT ![c].pc = "returned",
                                  ![c].result = IF db_file = "absent" THEN "Err" ELSE "Ok"]
    /\ UNCHANGED <<initialized, db_file, migrations>>

\* the task ends, with its connection or with the panic of unwrap(); the
\* same place of the program may call connection() again
task_end(c) ==
    /\ callers[c].pc = "returned"
    /\ callers' = [callers EXCEPT ![c] = NotCalled]
    /\ UNCHANGED <<initialized, db_file, migrations>>

ConnectionLock == \E c \in Callers : connection_lock(c) /\ UNCHANGED beside_database

CreateSqliteDb == \E c \in Callers : create_sqlite_db(c) /\ UNCHANGED beside_database

MigratorUp == \E c \in Callers : create_sqlite_db_migrate(c) /\ UNCHANGED beside_database

ConnectionConnect == \E c \in Callers : connection_connect(c) /\ UNCHANGED beside_database

TaskEnd == \E c \in Callers : task_end(c) /\ UNCHANGED beside_database

\* the tasks run on the threads of the tokio runtime, beside each other
NextDatabase ==
    \/ ConnectionLock
    \/ CreateSqliteDb
    \/ MigratorUp
    \/ ConnectionConnect
    \/ TaskEnd

SpecDatabase == Init /\ [][NextDatabase]_vars

\* ================================================================ claims
\* vocabulary of the claims, stated on the tables and the files directly
RowsOf(id) == {c \in chunks : c.upload_id = id}

RECURSIVE SizeSum(_)
SizeSum(rows) ==
    IF rows = {} THEN 0
    ELSE LET c == CHOOSE r \in rows : TRUE IN c.chunk_size + SizeSum(rows \ {c})

\* the file of the row is on disk and hashes to the hash the row records
FileMatches(c) ==
    /\ <<c.upload_id, c.chunk_number>> \in DOMAIN chunk_files
    /\ Sha256(chunk_files[<<c.upload_id, c.chunk_number>>]) = c.chunk_hash

IsUploading(id) == id \in DOMAIN uploads /\ uploads[id].status = Uploading
IsCompleted(id) == id \in DOMAIN uploads /\ uploads[id].status = Completed

\* the chunk files 1..n of the session, one after the other
RECURSIVE ConcatChunks(_, _)
ConcatChunks(id, n) ==
    IF n = 0 THEN << >> ELSE ConcatChunks(id, n - 1) \o chunk_files[<<id, n>>]

\* ---- C1 ----------------------------------------------------------------
\* C1: whenever the merged destination file does not hash to the session
\* id, CompleteUpload answers 500, the session stays Uploading and the
\* merged destination file is left in place.
C1_CompleteRejectsHashMismatch ==
    [][\A id \in FileIds :
          (/\ IsUploading(id)
           /\ resp'.op = "complete" /\ resp'.file_id = id
           /\ complete_upload(id)
           /\ uploads[id].file_path \in DOMAIN dest_files'
           /\ Sha256(dest_files'[uploads[id].file_path]) # id)
          => (/\ resp'.code = 500
              /\ uploads'[id].status = Uploading)]_vars

\* ---- C2 ----------------------------------------------------------------
\* C2: an UploadChunk on an Uploading session whose bytes do not hash to
\* the declared chunkHash answers 400, leaves no chunk file and inserts no
\* ChunkRecord for (session, chunkNumber).
C2_ChunkHashMismatchRejected ==
    [][\A id \in FileIds, n \in ChunkNumbers, h \in ChunkHashes, b \in ChunkBodies :
          (/\ IsUploading(id)
           /\ Sha256(b) # h
           /\ resp'.op = "chunk" /\ resp'.file_id = id
           /\ upload_chunk(id, n, h, b))
          => (/\ resp'.code = 400
              /\ <<id, n>> \notin DOMAIN chunk_files'
              /\ get_chunk_by_number(chunks', id, n) = {})]_vars

\* ---- C3 ----------------------------------------------------------------
\* C3: when the session has exactly the chunks 1..n, each file matching
\* its recorded hash, and the recorded sizes sum to the declared size,
\* CompleteUpload succeeds, marks the session Completed, and the
\* destination file is the concatenation of the chunk files in ascending
\* chunk-number order, of the declared length.
C3_MergeCorrect ==
    [][\A id \in FileIds :
          (/\ IsUploading(id)
           /\ RowsOf(id) # {}
           /\ {c.chunk_number : c \in RowsOf(id)} = 1..Cardinality(RowsOf(id))
           /\ \A c \in RowsOf(id) : FileMatches(c)
           /\ SizeSum(RowsOf(id)) = uploads[id].file_size
           /\ resp'.op = "complete" /\ resp'.file_id = id
           /\ complete_upload(id))
          => (/\ resp'.code = 200
              /\ uploads'[id].status = Completed
              /\ dest_files'[uploads[id].file_path]
                    = ConcatChunks(id, Cardinality(RowsOf(id)))
              /\ Len(dest_files'[uploads[id].file_path]) = uploads[id].file_size)]_vars

\* a completed upload whose chunks arrived in descending order (the row of
\* chunk 2 was inserted before the row of chunk 1) holds both parts
C3_Witness ==
    \E id \in FileIds :
        /\ IsCompleted(id)
        /\ resp = Response("complete", id, 200, "File uploaded and verified successfully")
        /\ \E c1, c2 \in RowsOf(id) :
              c1.chunk_number = 1 /\ c2.chunk_number = 2 /\ c2.id < c1.id
        /\ uploads[id].file_path \in DOMAIN dest_files
        /\ Len(dest_files[uploads[id].file_path]) = uploads[id].file_size
        /\ Sha256(dest_files[uploads[id].file_path]) = id

\* ---- C4 ----------------------------------------------------------------
\* C4: a second UploadChunk with the same valid (session, chunkNumber,
\* chunkHash, bytes), the first having stored the chunk, answers 200
\* "already uploaded", rewrites no chunk file, and exactly one ChunkRecord
\* for (session, chunkNumber) exists afterwards.
C4_UploadChunkIdempotent ==
    [][\A id \in FileIds :
          (IsUploading(id) /\ resp'.op = "chunk" /\ resp'.file_id = id) =>
            \A c \in RowsOf(id) :
                \* the state the first call left: the row c and its file
                FileMatches(c) =>
                  LET n == c.chunk_number
                      h == c.chunk_hash
                      b == chunk_files[<<id, n>>]
                  IN  (/\ Sha256(b) = h
                       /\ c.chunk_size = Len(b)
                       /\ upload_chunk(id, n, h, b))
                      => (/\ resp' = Response("chunk", id, 200, "Chunk already uploaded")
                          /\ chunk_files' = chunk_files
                          /\ chunks' = chunks
                          /\ Cardinality({d \in chunks' : d.upload_id = id
                                                         /\ d.chunk_number = n}) = 1)]_vars

C4_Witness ==
    /\ resp.op = "chunk"
    /\ resp.body = "Chunk already uploaded"
    /\ \E c \in RowsOf(resp.file_id) :
          /\ FileMatches(c)
          /\ Sha256(chunk_files[<<c.upload_id, c.chunk_number>>]) = c.chunk_hash
          /\ Cardinality({d \in chunks : d.upload_id = c.upload_id
                                         /\ d.chunk_number = c.chunk_number}) = 1

\* ---- C5 ----------------------------------------------------------------
\* C5: CompleteUpload on an Uploading session whose recorded chunk sizes do
\* not sum to the declared size answers 500 (size mismatch), has copied no
\* chunk byte to the destination, and leaves the session Uploading.
C5_SizeMismatchBeforeCopy ==
    [][\A id \in FileIds :
          (/\ IsUploading(id)
           /\ SizeSum(RowsOf(id)) # uploads[id].file_size
           /\ resp'.op = "complete" /\ resp'.file_id = id
           /\ complete_upload(id))
          => (/\ resp'.code = 500
              /\ resp'.error = "File size mismatch"
              /\ dest_files'[uploads[id].file_path] = << >>
              /\ uploads' = uploads
              /\ uploads'[id].status = Uploading
              /\ chunks' = chunks
              /\ chunk_files' = chunk_files)]_vars

\* a stored chunk that was not copied: the completion failed on the sizes
C5_Witness ==
    \E id \in FileIds :
        /\ resp.op = "complete" /\ resp.file_id = id
        /\ resp.code = 500 /\ resp.error = "File size mismatch"
        /\ IsUploading(id)
        /\ \E c \in RowsOf(id) : FileMatches(c)
        /\ SizeSum(RowsOf(id)) # uploads[id].file_size
        /\ dest_files[uploads[id].file_path] = << >>

\* ---- C6 ----------------------------------------------------------------
\* C6: InitUpload on an Uploading session deletes the file and the row of
\* every chunk whose file is missing or does not match the recorded hash,
\* leaves every other file and row as it was, reports exactly the numbers
\* of the valid chunks, and afterwards every remaining row of the session
\* has a matching file.
C6_InitCleansInvalidChunks ==
    [][\A name \in FileNames, size \in FileSizes, id \in FileIds :
          (/\ IsUploading(id)
           /\ resp'.op = "init" /\ resp'.file_id = id
           /\ init_upload(name, size, id))
          => LET invalid == {c \in RowsOf(id) : ~FileMatches(c)}
                 valid == RowsOf(id) \ invalid
                 gone == {<<c.upload_id, c.chunk_number>> : c \in invalid}
             IN  /\ chunks' = chunks \ invalid
                 /\ chunk_files' = [q \in (DOMAIN chunk_files) \ gone |-> chunk_files[q]]
                 /\ resp'.code = 200
                 /\ resp'.status = Uploading
                 /\ Len(resp'.uploaded_chunks) = Cardinality(valid)
                 /\ {resp'.uploaded_chunks[i] : i \in DOMAIN resp'.uploaded_chunks}
                       = {c.chunk_number : c \in valid}
                 /\ \A c \in chunks' : c.upload_id = id =>
                       /\ <<id, c.chunk_number>> \in DOMAIN chunk_files'
                       /\ Sha256(chunk_files'[<<id, c.chunk_number>>]) = c.chunk_hash
                 /\ UNCHANGED <<uploads, dest_files>>]_vars

\* two rows were inserted, the resumption reports one chunk and only its
\* row and file are left: the other row was deleted by the clean-up
C6_Witness ==
    /\ resp.op = "init"
    /\ resp.status = Uploading
    /\ Len(resp.uploaded_chunks) = 1
    /\ next_chunk_id = 3
    /\ Cardinality(chunks) = 1
    /\ \A c \in chunks : c.upload_id = resp.file_id /\ FileMatches(c)
    /\ DOMAIN chunk_files = {<<c.upload_id, c.chunk_number>> : c \in chunks}

\* ---- C7 ----------------------------------------------------------------
\* C7: InitUpload on a Completed session whose destination file is absent
\* or does not hash to the content hash deletes the session and its chunk
\* rows, creates a fresh Uploading session with the same id, and answers
\* Uploading with no uploaded chunks and uploaded size 0.
C7_InitResetsInvalidCompleted ==
    [][\A name \in FileNames, size \in FileSizes, id \in FileIds :
          (/\ IsCompleted(id)
           /\ \/ uploads[id].file_path \notin DOMAIN dest_files
              \/ Sha256(dest_files[uploads[id].file_path]) # id
           /\ resp'.op = "init" /\ resp'.file_id = id
           /\ init_upload(name, size, id))
          => (/\ {c \in chunks' : c.upload_id = id} = {}
              /\ id \in DOMAIN uploads'
              /\ uploads'[id].status = Uploading
              /\ resp' = InitResponse(id, Uploading, << >>, 0))]_vars

\* ---- C8 ----------------------------------------------------------------
\* C8: InitUpload on a Completed session whose destination file hashes to
\* the content hash answers Completed with uploaded size = declared size
\* and changes no session row, chunk row or file.
C8_InitCompletedNoOp ==
    [][\A name \in FileNames, size \in FileSizes, id \in FileIds :
          (/\ IsCompleted(id)
           /\ uploads[id].file_path \in DOMAIN dest_files
           /\ Sha256(dest_files[uploads[id].file_path]) = id
           /\ resp'.op = "init" /\ resp'.file_id = id
           /\ init_upload(name, size, id))
          => (/\ resp' = InitResponse(id, Completed, << >>, uploads[id].file_size)
              /\ UNCHANGED <<uploads, chunks, next_chunk_id, dirs, chunk_files,
                             dest_files>>)]_vars

C8_Witness ==
    /\ resp.op = "init"
    /\ resp.status = Completed
    /\ IsCompleted(resp.file_id)
    /\ resp.uploaded_size = uploads[resp.file_id].file_size
    /\ uploads[resp.file_id].file_path \in DOMAIN dest_files
    /\ Sha256(dest_files[uploads[resp.file_id].file_path]) = resp.file_id

\* ---- C9 ----------------------------------------------------------------
\* C9: InitUpload for a content hash with no session persists exactly one
\* new session (id = content hash, declared name and size, Uploading) and
\* answers Uploading with no uploaded chunks and uploaded size 0.
C9_InitCreatesSession ==
    [][\A name \in FileNames, size \in FileSizes, id \in FileIds :
          (/\ id \notin DOMAIN uploads
           /\ resp'.op = "init" /\ resp'.file_id = id
           /\ init_upload(name, size, id))
          => (/\ DOMAIN uploads' = (DOMAIN uploads) \cup {id}
              /\ \A k \in DOMAIN uploads : uploads'[k] = uploads[k]
              /\ uploads'[id].id = id
              /\ uploads'[id].file_name = name
              /\ uploads'[id].file_size = size
              /\ uploads'[id].status = Uploading
              /\ resp' = InitResponse(id, Uploading, << >>, 0))]_vars

\* ---- C10 ---------------------------------------------------------------
\* C10: a session goes from Uploading to Completed only through a
\* CompleteUpload in which every chunk is present and valid and the size
\* and final-hash checks succeed; a failed CompleteUpload leaves it
\* Uploading; UploadChunk and InitUpload on an Uploading session never
\* change the status.
C10_StatusStateMachine ==
    [][\A id \in FileIds :
          IsUploading(id) =>
            /\ (id \in DOMAIN uploads' /\ uploads'[id].status = Completed)
                  => (/\ complete_upload(id)
                      /\ \A c \in RowsOf(id) : FileMatches(c)
                      /\ SizeSum(RowsOf(id)) = uploads[id].file_size
                      /\ Sha256(dest_files'[uploads[id].file_path]) = id)
            /\ (complete_upload(id) /\ resp'.code # 200)
                  => (id \in DOMAIN uploads' /\ uploads'[id].status = Uploading)
            /\ (\/ \E n \in ChunkNumbers, h \in ChunkHashes, b \in ChunkBodies :
                      upload_chunk(id, n, h, b)
                \/ \E name \in FileNames, size \in FileSizes :
                      init_upload(name, size, id))
                  => (id \in DOMAIN uploads' /\ uploads'[id].status = Uploading)]_vars

\* ---- vocabulary of the claims on requests in flight --------------------
\* the request r is answered in this step
Answered(r) == InFlight(r) /\ reqs'[r].pc = "done"

\* the rows of (session, chunk number) in the table tbl
RowsAt(tbl, id, n) == {c \in tbl : c.upload_id = id /\ c.chunk_number = n}

\* r and t carry the same session, chunk number, hash and bytes
SameChunk(r, t) ==
    /\ reqs[r].upload_id = reqs[t].upload_id
    /\ reqs[r].chunk_number = reqs[t].chunk_number
    /\ reqs[r].chunk_hash = reqs[t].chunk_hash
    /\ reqs[r].bytes = reqs[t].bytes

\* ---- C11 ---------------------------------------------------------------
\* C11: of two UploadChunk requests that carry the same valid (session,
\* chunkNumber, chunkHash, bytes) for an Uploading session, each one is
\* answered 200, however their steps interleave, and once both are
\* answered exactly one ChunkRecord for (session, chunkNumber) exists.
C11_ConcurrentSameChunkIdempotent ==
    [][\A r, t \in Requests :
          (/\ r # t
           /\ Answered(r)
           /\ reqs[t].pc # "idle"
           /\ SameChunk(r, t)
           /\ Sha256(reqs[r].bytes) = reqs[r].chunk_hash
           /\ IsUploading(reqs[r].upload_id))
          => (/\ reqs'[r].code = 200
              /\ reqs'[t].pc = "done" =>
                    Cardinality(RowsAt(chunks', reqs[r].upload_id,
                                       reqs[r].chunk_number)) = 1)]_vars

\* ---- C12 ---------------------------------------------------------------
\* C12: while the only other UploadChunk request of the session is for a
\* different chunk number, no step of a request touches the file or the
\* rows of the other chunk number, and a request that is answered
\* "uploaded successfully" leaves its chunk file holding its own bytes and
\* exactly one ChunkRecord of its chunk number, with its hash and size.
C12_DifferentChunksIndependent ==
    [][\A r, t \in Requests :
          (/\ r # t
           /\ InFlight(r)
           /\ reqs'[r] # reqs[r]
           /\ reqs[t].pc # "idle" =>
                 /\ reqs[t].upload_id = reqs[r].upload_id
                 /\ reqs[t].chunk_number # reqs[r].chunk_number)
          => LET id == reqs[r].upload_id
                 n == reqs[r].chunk_number
             IN  /\ \A m \in ChunkNumbers \ {n} :
                       /\ RowsAt(chunks', id, m) = RowsAt(chunks, id, m)
                       /\ (<<id, m>> \in DOMAIN chunk_files')
                             = (<<id, m>> \in DOMAIN chunk_files)
                       /\ <<id, m>> \in DOMAIN chunk_files =>
                             chunk_files'[<<id, m>>] = chunk_files[<<id, m>>]
                 /\ (reqs'[r].pc = "done" /\ reqs'[r].code = 200) =>
                       /\ <<id, n>> \in DOMAIN chunk_files'
                       /\ chunk_files'[<<id, n>>] = reqs[r].bytes
                       /\ \E c \in chunks' :
                             /\ RowsAt(chunks', id, n) = {c}
                             /\ c.chunk_hash = reqs[r].chunk_hash
                             /\ c.chunk_size = Len(reqs[r].bytes)]_vars

\* both requests were answered "uploaded successfully", chunk 2 stored before
\* chunk 1, and each file holds the bytes of its own request
C12_Witness ==
    \E r, t \in Requests :
        /\ reqs[r].pc = "done" /\ reqs[t].pc = "done"
        /\ reqs[r].body = "Chunk uploaded successfully"
        /\ reqs[t].body = "Chunk uploaded successfully"
        /\ reqs[r].upload_id = reqs[t].upload_id
        /\ reqs[r].chunk_number = 1 /\ reqs[t].chunk_number = 2
        /\ reqs[r].bytes # reqs[t].bytes
        /\ chunk_files[<<reqs[r].upload_id, 1>>] = reqs[r].bytes
        /\ chunk_files[<<reqs[t].upload_id, 2>>] = reqs[t].bytes
        /\ \E c, d \in chunks :
              c.chunk_number = 1 /\ d.chunk_number = 2 /\ d.id < c.id

\* ---- C14 ---------------------------------------------------------------
\* C14: in every reachable state there is at most one ChunkRecord for each
\* (session id, chunk number) pair.
C14_ChunkNumberUnique ==
    \A c, d \in chunks :
        (c.upload_id = d.upload_id /\ c.chunk_number = d.chunk_number) => c = d

\* two requests raced to insert the same chunk number: one row is there and
\* the insert of the other request was refused
C14_Witness ==
    \E r, t \in Requests :
        /\ r # t
        /\ reqs[r].pc = "done" /\ reqs[r].body = "Failed to insert chunk"
        /\ reqs[t].pc = "done" /\ reqs[t].body = "Chunk uploaded successfully"
        /\ reqs[t].chunk_number = reqs[r].chunk_number
        /\ Cardinality(RowsAt(chunks, reqs[r].upload_id, reqs[r].chunk_number)) = 1

\* ---- C13 ---------------------------------------------------------------
\* C13: no CompleteUpload merges the chunks of a session while an
\* UploadChunk request of that session is between its status check and its
\* answer, and once the session is Completed and its temp directory is
\* removed no step of such a request creates the directory, writes or
\* deletes a chunk file, or inserts or deletes a ChunkRecord.
C13_CompleteExcludesUploadChunk ==
    [][\A r \in Requests :
          InFlight(r) =>
            LET id == reqs[r].upload_id
            IN  /\ ~(/\ resp'.op = "complete" /\ resp'.file_id = id
                      /\ UNCHANGED reqs
                      /\ complete_upload(id))
                /\ (/\ IsCompleted(id)
                     /\ id \notin dirs
                     /\ reqs'[r] # reqs[r])
                    => UNCHANGED <<dirs, chunk_files, chunks>>]_vars

\* ---- C15 ---------------------------------------------------------------
\* C15: in every reachable state no two UploadSessions have the same
\* destination file path.
C15_DestinationPathUnique ==
    \A a, b \in DOMAIN uploads :
        a # b => uploads[a].file_path # uploads[b].file_path

\* a second session of the same file name was refused: the path
\* get_available_filename proposes is the path of the session that exists
C15_Witness ==
    /\ resp.op = "init" /\ resp.code = 500
    /\ resp.file_id \notin DOMAIN uploads
    /\ \E a \in DOMAIN uploads :
          /\ uploads[a].file_name \in FileNames
          /\ uploads[a].file_path = get_available_filename(dest_files, uploads[a].file_name)

\* ---- C16 ---------------------------------------------------------------
\* C16: an UploadChunk with an empty sessionId or a chunkNumber <= 0 is
\* answered 400, one for an unknown session 404, one for a Completed session
\* 400; in each case no chunk file, ChunkRecord, session row, temp
\* directory or destination file changes.
C16_UploadChunkPreconditions ==
    [][\A id \in FileIds \cup {EmptyId}, n \in 0..MaxChunks :
          (/\ resp'.op = "chunk" /\ resp'.file_id = id
           /\ \/ id = EmptyId
              \/ n <= 0
              \/ id \notin DOMAIN uploads
              \/ IsCompleted(id)
           /\ \E h \in ChunkHashes, b \in ChunkBodies : upload_chunk(id, n, h, b))
          => (/\ resp'.code = IF id = EmptyId \/ n <= 0 THEN 400
                              ELSE IF id \notin DOMAIN uploads THEN 404
                              ELSE 400
              /\ UNCHANGED <<uploads, chunks, next_chunk_id, dirs, chunk_files,
                             dest_files>>)]_vars

\* a chunk was sent to a session that is Completed and was refused
C16_Witness ==
    /\ resp.op = "chunk" /\ resp.code = 400
    /\ resp.body = "File already completed"
    /\ IsCompleted(resp.file_id)
    /\ resp.file_id \notin dirs
    /\ \A c \in RowsOf(resp.file_id) : <<c.upload_id, c.chunk_number>> \notin DOMAIN chunk_files

\* ---- C17 ---------------------------------------------------------------
\* C17: an UploadChunk for a (session, chunkNumber) whose ChunkRecord is
\* stale (its file is missing or does not match the recorded hash) deletes
\* the stale record, leaves the other records alone and writes the incoming
\* bytes to the chunk file; a chunk whose bytes match its hash is accepted,
\* and after every 200 exactly one ChunkRecord of the pair exists, a new
\* one with the incoming hash and size.
C17_StaleChunkReplaced ==
    [][\A id \in FileIds :
          (IsUploading(id) /\ resp'.op = "chunk" /\ resp'.file_id = id) =>
            \A c \in RowsOf(id) :
                ~FileMatches(c) =>
                  \A h \in ChunkHashes, b \in ChunkBodies :
                      upload_chunk(id, c.chunk_number, h, b) =>
                        LET n == c.chunk_number
                        IN  /\ c \notin chunks'
                            /\ chunks' \ RowsAt(chunks', id, n) = chunks \ {c}
                            /\ <<id, n>> \in DOMAIN chunk_files'
                            /\ chunk_files'[<<id, n>>] = b
                            /\ Sha256(b) = h => resp'.code = 200
                            /\ resp'.code = 200 =>
                                  /\ resp'.body = "Chunk uploaded successfully"
                                  /\ \E d \in chunks' :
                                        /\ RowsAt(chunks', id, n) = {d}
                                        /\ d.id = next_chunk_id
                                        /\ d.chunk_hash = h
                                        /\ d.chunk_size = Len(b)]_vars

\* the file of the first ChunkRecord was removed from outside and the chunk
\* was uploaded again: the record of the pair is the second one inserted
C17_Witness ==
    /\ resp.op = "chunk" /\ resp.body = "Chunk uploaded successfully"
    /\ IsUploading(resp.file_id)
    /\ tampered = 1
    /\ next_chunk_id = 3
    /\ \E d \in chunks :
          /\ chunks = {d}
          /\ d.id = 2
          /\ d.upload_id = resp.file_id
          /\ FileMatches(d)
    /\ resp.file_id \in dirs

\* ---- C18 ---------------------------------------------------------------
\* C18: a CompleteUpload on an Uploading session of which the file of some
\* ChunkRecord is missing answers 500 and leaves the session Uploading and
\* the tables as they were; when the recorded sizes sum to the declared
\* size and every chunk file that exists has its recorded size, the failure
\* is "Chunk file not found".
C18_MissingChunkAborts ==
    [][\A id \in FileIds :
          (/\ IsUploading(id)
           /\ \E c \in RowsOf(id) : <<id, c.chunk_number>> \notin DOMAIN chunk_files
           /\ resp'.op = "complete" /\ resp'.file_id = id
           /\ complete_upload(id))
          => (/\ resp'.code = 500
              /\ uploads' = uploads
              /\ uploads'[id].status = Uploading
              /\ chunks' = chunks
              /\ (/\ SizeSum(RowsOf(id)) = uploads[id].file_size
                   /\ \A c \in RowsOf(id) :
                         <<id, c.chunk_number>> \in DOMAIN chunk_files =>
                           Len(chunk_files[<<id, c.chunk_number>>]) = c.chunk_size)
                  => resp'.error = "Chunk file not found")]_vars

\* the sizes of the rows are right, the file of one row is gone, and the
\* completion failed on it
C18_Witness ==
    \E id \in FileIds :
        /\ resp.op = "complete" /\ resp.file_id = id
        /\ resp.code = 500 /\ resp.error = "Chunk file not found"
        /\ IsUploading(id)
        /\ SizeSum(RowsOf(id)) = uploads[id].file_size
        /\ \E c \in RowsOf(id) : <<id, c.chunk_number>> \notin DOMAIN chunk_files
        /\ \E c \in RowsOf(id) : FileMatches(c)

\* ---- C19 ---------------------------------------------------------------
\* C19: a CompleteUpload for a session id that does not exist answers 404
\* and changes no session row, chunk row, directory or file.
C19_CompleteUnknownSession ==
    [][\A id \in FileIds :
          (/\ id \notin DOMAIN uploads
           /\ resp'.op = "complete" /\ resp'.file_id = id
           /\ complete_upload(id))
          => (/\ resp' = Response("complete", id, 404, "File not found")
              /\ UNCHANGED <<uploads, chunks, next_chunk_id, dirs, chunk_files,
                             dest_files>>)]_vars

\* the completion of a file that has no session, asked while the other
\* file has one
C19_Witness ==
    /\ resp.op = "complete" /\ resp.code = 404
    /\ resp.file_id \notin DOMAIN uploads
    /\ DOMAIN uploads # {}

\* ---- C20 ---------------------------------------------------------------
\* C20: when merge_chunks succeeds, CompleteUpload answers 200 and the
\* session is Completed, whether the temp directory is then removed (with
\* its chunk files) or its removal fails (directory and files stay).
C20_TempDirRemovalBestEffort ==
    [][\A id \in FileIds :
          (/\ id \in DOMAIN uploads
           /\ resp'.op = "complete" /\ resp'.file_id = id
           /\ complete_upload(id)
           /\ ~merge_chunks(uploads[id]).is_err)
          => (/\ resp' = Response("complete", id, 200,
                                  "File uploaded and verified successfully")
              /\ uploads' = [uploads EXCEPT ![id].status = Completed]
              /\ \/ /\ id \notin dirs'
                    /\ \A p \in DOMAIN chunk_files' : p[1] # id
                 \/ UNCHANGED <<dirs, chunk_files>>)]_vars

\* the session is Completed and the request succeeded although the temp
\* directory and the chunk files in it could not be removed
C20_Witness ==
    \E id \in FileIds :
        /\ resp = Response("complete", id, 200, "File uploaded and verified successfully")
        /\ IsCompleted(id)
        /\ tampered = 1
        /\ id \in dirs
        /\ \A c \in RowsOf(id) : FileMatches(c)
        /\ RowsOf(id) # {}
        /\ Sha256(dest_files[uploads[id].file_path]) = id

\* ---- C21 ---------------------------------------------------------------
\* C21: an UploadChunk request that is answered with an error after it has
\* written its chunk file (by the hash check or by the insert of the
\* ChunkRecord) has removed the file: after the answer the chunk file of
\* the request is not on disk.
C21_NoPartialStateOnFailure ==
    [][\A r \in Requests :
          (/\ Answered(r)
           /\ reqs[r].pc \in {"check_file_hash", "insert_chunk"}
           /\ reqs'[r].code # 200)
          => get_chunk_file(reqs[r].upload_id, reqs[r].chunk_number)
                \notin DOMAIN chunk_files']_vars

\* ---- C22 ---------------------------------------------------------------
\* C22: InitUpload on an Uploading session answers the numbers of the valid
\* chunks in ascending order, in whatever order the storage returns the
\* rows, and an uploaded size that is the sum of the recorded sizes of the
\* valid chunks.
C22_InitReportsSortedChunks ==
    [][\A name \in FileNames, size \in FileSizes, id \in FileIds :
          (/\ IsUploading(id)
           /\ resp'.op = "init" /\ resp'.file_id = id
           /\ init_upload(name, size, id))
          => (/\ \A i, j \in DOMAIN resp'.uploaded_chunks :
                    i < j => resp'.uploaded_chunks[i] < resp'.uploaded_chunks[j]
              /\ resp'.uploaded_size
                    = SizeSum({c \in RowsOf(id) : FileMatches(c)}))]_vars

C24_StartStopNoOp ==
    [][/\ (/\ server_state = On
            /\ returned'.op = "start"
            /\ \E port \in Ports : start(port))
           => (/\ UNCHANGED <<server_state, shutdown_token, listeners>>
               /\ returned'.warned)
       /\ (/\ server_state = Off
            /\ returned'.op = "stop"
            /\ stop)
           => (/\ UNCHANGED <<server_state, shutdown_token, listeners>>
               /\ returned'.warned)]_vars

\* Start was called on a server that is On with its listener bound: the
\* one listener and its token are as the first Start left them
C24_Witness ==
    /\ returned = [op |-> "start", warned |-> TRUE]
    /\ server_state = On
    /\ Len(listeners) = 1
    /\ shutdown_token = 1
    /\ listeners[1].pc = "listening" /\ listeners[1].signal = "none"

\* ---- C25 ---------------------------------------------------------------
\* C25: delete_upload_item is atomic: every step of it either deletes the
\* chunk rows of the session together with the session row, so that no
\* other request finds the rows gone and the session still there, or, when
\* it fails, deletes nothing.
C25_DeleteSessionAtomic ==
    [][\A r \in Requests :
          (/\ inits[r].pc \in {"delete_chunks", "delete_uploads"}
           /\ inits'[r] # inits[r])
          => LET id == inits[r].upload_item.id
             IN  \/ /\ {c \in chunks' : c.upload_id = id} = {}
                    /\ id \notin DOMAIN uploads'
                 \/ UNCHANGED <<chunks, uploads>>]_vars

\* ---- C26 ---------------------------------------------------------------
\* C26: check_file on a path and the hash of a byte sequence returns Valid
\* when the path holds exactly these bytes, Invalid (hash mismatch) when it
\* holds a file of any other content, Invalid (file not found) when nothing
\* is at the path; a mismatch is never returned as an error.
C26_CheckFileRoundTrip ==
    [][\A p \in Paths, bytes \in Contents :
          (/\ returned' # returned
           /\ returned' = [op |-> "check_file", path |-> p,
                           expected_hash |-> Sha256(bytes),
                           result |-> check_file_result(disk[p], Sha256(bytes))])
          => (/\ disk[p] = RegularFile(bytes) => returned'.result = Ok(Valid)
              /\ (disk[p].kind = "File" /\ disk[p].bytes # bytes)
                    => returned'.result = Ok(InvalidMismatch)
              /\ disk[p] = NotFound => returned'.result = Ok(InvalidNotFound))]_vars

\* one byte of a file of two bytes was flipped: the check of the hash of
\* the bytes written first answered Invalid, hash mismatch
C26_Witness ==
    \E p \in Paths, bytes \in Contents :
        /\ returned.op = "check_file" /\ returned.path = p
        /\ returned.expected_hash = Sha256(bytes)
        /\ returned.result = Ok(InvalidMismatch)
        /\ disk[p].kind = "File"
        /\ Len(bytes) = 2 /\ Len(disk[p].bytes) = 2
        /\ disk[p].bytes[1] = bytes[1]
        /\ disk[p].bytes[2] # bytes[2]

\* ---- C27 ---------------------------------------------------------------
\* C27: exists_file returns Ok(true) exactly when a regular readable file
\* is at the path, Ok(false) when nothing is at the path, and Err for
\* every other failure to open it.
C27_ExistsFileRegularOnly ==
    [][\A p \in Paths :
          (/\ returned' # returned
           /\ returned' = [op |-> "exists_file", path |-> p, expected_hash |-> 0,
                           result |-> exists_file_result(disk[p])])
          => (/\ (returned'.result = Ok(TRUE)) <=> (disk[p].kind = "File")
              /\ disk[p] = NotFound => returned'.result = Ok(FALSE)
              /\ disk[p] = PermissionDenied => returned'.result.is_err)]_vars

\* ---- C28 ---------------------------------------------------------------
\* C28: stream_download answers 404 when no share has the id that is asked
\* for or when the file of the share cannot be opened; otherwise it serves
\* the file, with the content type application/octet-stream when
\* force_download is true and the content type of the file when it is
\* false.
C28_StreamDownload ==
    [][\A id \in ShareIds, force \in BOOLEAN :
          (/\ resp'.op = "stream" /\ resp'.file_id = id
           /\ stream_download(id, force))
          => IF \/ id \notin DOMAIN shares
                \/ disk[shares[id].file_path].kind # "File"
             THEN resp'.code = 404
             ELSE /\ resp'.code = 200
                  /\ resp'.content_type =
                        IF force THEN "application/octet-stream"
                        ELSE mime_from_path(shares[id].file_path)]_vars

\* a text file was served as application/octet-stream: the download was
\* forced
C28_Witness ==
    \E id \in DOMAIN shares :
        /\ resp.op = "stream" /\ resp.file_id = id /\ resp.code = 200
        /\ resp.content_type = "application/octet-stream"
        /\ mime_from_path(shares[id].file_path) = "text/plain"
        /\ disk[shares[id].file_path].kind = "File"

\* ---- C29 ---------------------------------------------------------------
\* C29: a CompleteUpload on a session that is Completed and whose
\* destination file hashes to the content hash leaves the contents of the
\* destination file as they are and the session Completed.
C29_CompleteAgainHarmless ==
    [][\A id \in FileIds :
          (/\ IsCompleted(id)
           /\ uploads[id].file_path \in DOMAIN dest_files
           /\ Sha256(dest_files[uploads[id].file_path]) = id
           /\ resp'.op = "complete" /\ resp'.file_id = id
           /\ complete_upload(id))
          => (/\ uploads[id].file_path \in DOMAIN dest_files'
              /\ dest_files'[uploads[id].file_path] = dest_files[uploads[id].file_path]
              /\ Sha256(dest_files'[uploads[id].file_path]) = id
              /\ id \in DOMAIN uploads'
              /\ uploads'[id].status = Completed)]_vars

\* ---- C30 ---------------------------------------------------------------
\* C30: a CompleteUpload that failed has left the session Uploading and a
\* destination file behind; once the chunks 1..n are all there, each file
\* matching its recorded hash and the sizes summing to the declared size,
\* the next CompleteUpload succeeds, marks the session Completed, and the
\* destination file is the concatenation of the chunk files and nothing
\* else.
C30_FailedCompleteRetryable ==
    [][\A id \in FileIds :
          (/\ IsUploading(id)
           /\ uploads[id].file_path \in DOMAIN dest_files
           /\ RowsOf(id) # {}
           /\ {c.chunk_number : c \in RowsOf(id)} = 1..Cardinality(RowsOf(id))
           /\ \A c \in RowsOf(id) : FileMatches(c)
           /\ SizeSum(RowsOf(id)) = uploads[id].file_size
           /\ resp'.op = "complete" /\ resp'.file_id = id
           /\ complete_upload(id))
          => (/\ resp' = Response("complete", id, 200,
                                  "File uploaded and verified successfully")
              /\ uploads'[id].status = Completed
              /\ dest_files'[uploads[id].file_path]
                    = ConcatChunks(id, Cardinality(RowsOf(id))))]_vars

\* the state the retry starts from: the completion that failed on the
\* sizes left an empty destination file and the session Uploading, and the
\* chunk that was missing has just been uploaded
C30_Witness ==
    \E id \in FileIds :
        /\ IsUploading(id)
        /\ uploads[id].file_path \in DOMAIN dest_files
        /\ dest_files[uploads[id].file_path] = << >>
        /\ resp = Response("chunk", id, 200, "Chunk uploaded successfully")
        /\ {c.chunk_number : c \in RowsOf(id)} = 1..MaxChunks
        /\ \A c \in RowsOf(id) : FileMatches(c)
        /\ SizeSum(RowsOf(id)) = uploads[id].file_size
        /\ Sha256(ConcatChunks(id, MaxChunks)) = id

\* ---- C31 ---------------------------------------------------------------
\* C31: an InitUpload that found no session for its content hash when it
\* arrived is answered 200 with the status Uploading, whatever the other
\* InitUpload requests for that hash did while it was served.
C31_ConcurrentInitBothUploading ==
    \A r \in Requests :
        (inits[r].pc = "done" /\ inits[r].upload_item = NoItem)
        => (inits[r].code = 200 /\ inits[r].status = Uploading)

\* ---- C32 ---------------------------------------------------------------
\* C32: an InitUpload for a content hash that has no session, declaring the
\* file name of a session of another content hash that is still Uploading,
\* is answered 200 Uploading, and the new session gets a destination path
\* that no file has and no other session holds.
C32_SameNameDistinctPaths ==
    [][\A name \in FileNames, size \in FileSizes, a \in FileIds, b \in FileIds :
          (/\ a # b
           /\ IsUploading(a)
           /\ uploads[a].file_name = name
           /\ b \notin DOMAIN uploads
           /\ resp'.op = "init" /\ resp'.file_id = b
           /\ init_upload(name, size, b))
          => (/\ resp'.code = 200
              /\ resp'.status = Uploading
              /\ b \in DOMAIN uploads'
              /\ ~exists_file(dest_files, uploads'[b].file_path)
              /\ \A k \in DOMAIN uploads : uploads'[b].file_path # uploads[k].file_path)]_vars

\* ---- C33 ---------------------------------------------------------------
\* C33: in every reachable state a listener that is bound and has not been
\* told to shut down belongs to a server whose state is On and whose
\* shutdown token is the sender of that listener's channel: the state Off
\* means that no listener is accepting (beyond one that is shutting down),
\* and a Stop call reaches every listener that is running.
C33_StateReflectsListener ==
    \A k \in DOMAIN listeners :
        (listeners[k].pc = "listening" /\ listeners[k].signal = "none")
        => (server_state = On /\ shutdown_token = k)

\* ---- C34 ---------------------------------------------------------------
\* the bytes the chunk files of the rows hold on disk, from position i on
RECURSIVE DiskSize(_, _)
DiskSize(rows, i) ==
    IF i > Len(rows) THEN 0
    ELSE Len(chunk_files[get_chunk_file(rows[i].upload_id, rows[i].chunk_number)])
         + DiskSize(rows, i + 1)

\* C34: a CompleteUpload on an Uploading session whose chunk rows sum to
\* the declared size and whose chunk files are all there, but hold more or
\* fewer bytes in total than declared, is answered 500, the error is
\* "File size exceeds expected size" when the files hold more and
\* "File size mismatch" when they hold less, and the session stays
\* Uploading with its rows and chunk files as they were.
C34_MergeDefendsDiskSize ==
    [][\A id \in FileIds :
          LET rows == SortByChunkNumber(RowsOf(id))
          IN  (/\ resp'.op = "complete" /\ resp'.file_id = id
               /\ IsUploading(id)
               /\ SizeSum(RowsOf(id)) = uploads[id].file_size
               /\ \A c \in RowsOf(id) :
                     exists_file(chunk_files, get_chunk_file(id, c.chunk_number))
               /\ DiskSize(rows, 1) # uploads[id].file_size
               /\ complete_upload(id))
              => (/\ resp'.code = 500
                  /\ resp'.body = "Failed to merge chunks"
                  /\ resp'.error = IF DiskSize(rows, 1) > uploads[id].file_size
                                   THEN "File size exceeds expected size"
                                   ELSE "File size mismatch"
                  /\ uploads' = uploads
                  /\ UNCHANGED <<chunks, chunk_files, dirs>>)]_vars

\* the merge stopped in the copy loop: the chunk files of a session whose
\* rows sum to the declared size hold more bytes than declared
C34_Witness ==
    \E id \in FileIds :
        /\ resp.op = "complete" /\ resp.file_id = id /\ resp.code = 500
        /\ resp.error = "File size exceeds expected size"
        /\ IsUploading(id)
        /\ SizeSum(RowsOf(id)) = uploads[id].file_size
        /\ \A c \in RowsOf(id) :
              exists_file(chunk_files, get_chunk_file(id, c.chunk_number))
        /\ DiskSize(SortByChunkNumber(RowsOf(id)), 1) > uploads[id].file_size

\* the merge stopped after the copy loop: the chunk files hold fewer bytes
\* than declared
C34_WitnessUnder ==
    \E id \in FileIds :
        /\ resp.op = "complete" /\ resp.file_id = id /\ resp.code = 500
        /\ resp.error = "File size mismatch"
        /\ IsUploading(id)
        /\ SizeSum(RowsOf(id)) = uploads[id].file_size
        /\ \A c \in RowsOf(id) :
              exists_file(chunk_files, get_chunk_file(id, c.chunk_number))
        /\ DiskSize(SortByChunkNumber(RowsOf(id)), 1) < uploads[id].file_size

C36_SessionsIndependent ==
    [][\A a \in FileIds, b \in FileIds :
          (/\ a # b
           /\ b \in DOMAIN uploads
           /\ resp'.file_id = a
           /\ \/ complete_upload(a)
              \/ \E n \in 0..MaxChunks, h \in ChunkHashes, bytes \in ChunkBodies :
                    upload_chunk(a, n, h, bytes)
              \/ \E name \in FileNames \cup NestedFileNames, size \in FileSizes :
                    init_upload(name, size, a))
          => (/\ (b \in DOMAIN uploads) = (b \in DOMAIN uploads')
              /\ b \in DOMAIN uploads => uploads'[b] = uploads[b]
              /\ {c \in chunks' : c.upload_id = b} = RowsOf(b)
              /\ (b \in dirs) = (b \in dirs')
              /\ \A n \in ChunkNumbers :
                    /\ exists_file(chunk_files', get_chunk_file(b, n))
                          = exists_file(chunk_files, get_chunk_file(b, n))
                    /\ exists_file(chunk_files, get_chunk_file(b, n))
                          => chunk_files'[get_chunk_file(b, n)]
                                = chunk_files[get_chunk_file(b, n)]
              /\ b \in DOMAIN uploads =>
                    /\ exists_file(dest_files', uploads[b].file_path)
                          = exists_file(dest_files, uploads[b].file_path)
                    /\ exists_file(dest_files, uploads[b].file_path)
                          => dest_files'[uploads[b].file_path]
                                = dest_files[uploads[b].file_path])]_vars


C38_FailedStartReturnsToOff ==
    /\ [][((\E port \in Ports : start(port)) /\ server_state = Off) =>
              /\ server_state' = On
              /\ listeners'[shutdown_token'].pc = "spawned"]_vars
    /\ (/\ server_state = On
        /\ shutdown_token \in DOMAIN listeners
        /\ listeners[shutdown_token].pc \in {"failed", "panicked"})
           ~> (server_state = Off)

\* C39: among the calls of connection() that run beside each other,
\* Migrator::up runs at most once, and a call reaches its own
\* Database::connect only when the database file is there with its schema
C39_InitialisedBeforeConnect ==
    [][\A c \in Callers :
          /\ create_sqlite_db_migrate(c) => migrations = 0
          /\ connection_connect(c) => db_file = "schema"]_vars


====
